---- MODULE Spec2Model ----
(***************************************************************************)
(* auto-wall-companion: the wall import/export pipeline and the tile       *)
(* compositor of WallUtils (src/ts/module.ts), as a state machine.         *)
(*                                                                         *)
(* An invocation of one of the WallUtils operations is a slot p of inv.    *)
(* JavaScript runs a handler to its next await without interruption, so    *)
(* one action is the code between two suspension points: the call that     *)
(* starts an operation runs to its first await, and each answer of a       *)
(* collaborator (clipboard, confirmation dialog, host bulk-create, image   *)
(* load, canvas encoder) runs the continuation to the next await or to     *)
(* the end of the operation.                                               *)
(***************************************************************************)
EXTENDS Integers, Sequences, FiniteSets, TLC

VARIABLES
    scenes,     \* scene id -> [padding, name, background, walls, tiles]: the host's scenes
    current,    \* game.scenes.current: a scene id or NoScene
    viewed,     \* game.scenes.viewed: a scene id or NoScene
    patient,    \* whether the user lets an operation end before triggering the next
    nextId,     \* the next _id the host assigns to a created document
    inv,        \* slot -> the locals and the observable effects of an invocation
    imports,    \* number of import operations started so far
    hook,       \* the controls list of getSceneControlButtons and its hook invocations
    lastImport  \* history: the last import that completed, while nothing was created since

vars == <<scenes, current, viewed, patient, nextId, inv, imports, hook, lastImport>>

---------------------------------------------------------------------------
(* Bounds of the model *)

\* Largest payload has MaxBatches full batches plus one record.
MaxBatches == 2
\* Import operations started in one behaviour.
MaxImports == 1
\* Invocation slots.
MaxProcs == 2
\* Tiles in a scene's tile collection.
MaxTiles == 2
\* Coordinates are counted in 1/Denom of a unit, so that fractional
\* positions and sizes exist and Math.ceil has something to round.
Denom == 2

\* Invocations of the getSceneControlButtons hook on one controls list.
MaxHooks == 2

(* Program constants *)

\* const BATCH_SIZE = 100;
BATCH_SIZE == 100
\* const MAX_DIMENSION = 16384;
MAX_DIMENSION == 16384

---------------------------------------------------------------------------
(* Values *)

Procs == 1..MaxProcs
NoScene == "none"
SceneIds == {"s1", "s2"}
NoText == [kind |-> "none", type |-> "none", items |-> <<>>]
NoImport == [scene |-> NoScene, base |-> 0, payload |-> <<>>, owner |-> 0, done |-> FALSE]

\* A wall record is a function from field names to plain values; "_id" is
\* the identity field.  Record i of a foreign payload: odd records carry a
\* foreign _id (negative, so that it is never an id of this host).
PayloadWall(i) ==
    IF i % 2 = 1 THEN [_id |-> 0 - i, c |-> i, door |-> i % 3]
                 ELSE [c |-> i, door |-> i % 3]

Payload(n) == [i \in 1..n |-> PayloadWall(i)]

PayloadSizes ==
    {0, 1} \cup {k * BATCH_SIZE + d : k \in 1..MaxBatches, d \in {0, 1}}

\* A text is what the clipboard or a file holds.  kind "invalid" is text
\* JSON.parse rejects; a JSON text is its value: an array of items, or a
\* value that is not an array.
JsonArray(items) == [kind |-> "json", type |-> "array", items |-> items]
InvalidText == [kind |-> "invalid", type |-> "none", items |-> <<>>]
ObjectText == [kind |-> "json", type |-> "object", items |-> <<>>]

Texts == {InvalidText, ObjectText} \cup {JsonArray(Payload(n)) : n \in PayloadSizes}

\* The texts the model lets an import read: those whose records the scenes
\* can take without holding more than MaxWalls walls between them.
MaxWalls == MaxBatches * BATCH_SIZE + 2
WallCount == Len(scenes["s1"].walls) + Len(scenes["s2"].walls)
ReadableTexts ==
    {text \in Texts :
        /\ WallCount + Len(text.items) <= MaxWalls
        /\ ~patient => text \in {InvalidText, JsonArray(Payload(BATCH_SIZE + 1))}}

\* Error messages of the collaborators.
ParseError == "Unexpected token"
HostErrors == {"validation failed"}
ClipboardErrors == {"NotAllowedError"}

\* ui.notifications.<level>(message): the message template, its numbers
\* (-1: none) and the error message appended to it ("": none).
Note(level, msg, n1, n2, err) ==
    [level |-> level, msg |-> msg, n1 |-> n1, n2 |-> n2, err |-> err]

\* Locals and effects of an invocation that has not started.
Fresh ==
    [op |-> "none", pc |-> "idle", outcome |-> "none",
     text |-> NoText, scene |-> NoScene, walls |-> <<>>, wallData |-> <<>>,
     i |-> 0, createdCount |-> 0, totalWalls |-> 0,
     json |-> NoText,
     tiles |-> <<>>, minX |-> 0, minY |-> 0, maxX |-> 0, maxY |-> 0,
     canvasWidth |-> 0, canvasHeight |-> 0,
     canvas |-> [created |-> FALSE, width |-> 0, height |-> 0],
     idx |-> 0, loadedCount |-> 0, failedCount |-> 0, pending |-> {},
     blob |-> "none", fullImageUrl |-> <<>>,
     events |-> <<>>,
     notes |-> <<>>, calls |-> <<>>, confirms |-> <<>>,
     clip |-> <<>>, saved |-> <<>>]

---------------------------------------------------------------------------
(* Pure helpers *)

\* Mutant: the record is passed on as it is.
KeepIdentity(wall) == wall

\* Mutant: the destructuring drops the door state with the identity.
StripIdentityAndDoor(wall) == [f \in DOMAIN wall \ {"_id", "door"} |-> wall[f]]

\* const { _id, ...wallData } = wall; return wallData;
StripIdentity(wall) == [f \in DOMAIN wall \ {"_id"} |-> wall[f]]

\* walls.map(wall => { ... })
MapStripIdentity(walls) == [k \in 1..Len(walls) |-> StripIdentity(walls[k])]

Min2(a, b) == IF a <= b THEN a ELSE b

\* Mutant: the slice takes one record too many.
SliceOneMore(seq, from, to) == SubSeq(seq, from + 1, Min2(to + 1, Len(seq)))

\* wallData.slice(i, i + BATCH_SIZE), i counted from 0
Slice(seq, from, to) == SubSeq(seq, from + 1, Min2(to, Len(seq)))

\* The host's createEmbeddedDocuments("Wall", batch): each record becomes a
\* document with an _id of the host's choosing.
HostDocument(rec, id) ==
    [f \in DOMAIN rec \cup {"_id"} |-> IF f = "_id" THEN id ELSE rec[f]]

HostCreate(docs, batch, firstId) ==
    docs \o [k \in 1..Len(batch) |-> HostDocument(batch[k], firstId + k - 1)]

\* wall.toObject(): the document's plain fields, _id included.
ToObject(doc) == [f \in DOMAIN doc |-> doc[f]]

---------------------------------------------------------------------------
(* Steps of an invocation, as functions of its locals s *)

Push(s, note) == [s EXCEPT !.notes = Append(@, note)]

\* The operation ends: it returns, or its catch block has run.
Finish(s, outcome) == [s EXCEPT !.pc = "done", !.outcome = outcome]

\* showPaddingWarning(operation): the dialog is rendered and its promise
\* awaited.
showPaddingWarning(s, operation) ==
    [s EXCEPT !.pc = "confirm",
              !.confirms = Append(@, [operation |-> operation, answer |-> "pending"])]

\* Mutant: the bulk-create calls are not awaited: every remaining batch is
\* submitted at once.
RECURSIVE ImportLoopNoAwait(_)
ImportLoopNoAwait(s) ==
    IF s.i < Len(s.wallData)
    THEN ImportLoopNoAwait(
            [s EXCEPT !.i = @ + BATCH_SIZE,
                      !.calls = Append(@, [scene |-> s.scene, type |-> "Wall",
                                           batch |-> Slice(s.wallData, s.i, s.i + BATCH_SIZE),
                                           result |-> "pending"])])
    ELSE IF \E k \in 1..Len(s.calls) : s.calls[k].result = "pending"
         THEN [s EXCEPT !.pc = "create"]
         ELSE Finish(Push(s, Note("info", "Successfully created {n1} walls!",
                                  s.createdCount, -1, "")), "complete")

\* Mutant: each batch is created in the scene that is current when the
\* batch is submitted.
ImportLoopCurrentScene(s) ==
    IF s.i < Len(s.wallData)
    THEN [s EXCEPT !.pc = "create",
                   !.calls = Append(@, [scene |-> IF current = NoScene THEN s.scene
                                                                       ELSE current,
                                        type |-> "Wall",
                                        batch |-> Slice(s.wallData, s.i, s.i + BATCH_SIZE),
                                        result |-> "pending"])]
    ELSE Finish(Push(s, Note("info", "Successfully created {n1} walls!",
                             s.createdCount, -1, "")), "complete")

\* processWallImport, the for loop: its test, then the slice and the
\* createEmbeddedDocuments call it awaits; past the loop, the success
\* notification.
ImportLoop(s) ==
    IF s.i < Len(s.wallData)
    THEN [s EXCEPT !.pc = "create",
                   !.calls = Append(@, [scene |-> s.scene, type |-> "Wall",
                                        batch |-> Slice(s.wallData, s.i, s.i + BATCH_SIZE),
                                        result |-> "pending"])]
    ELSE Finish(Push(s, Note("info", "Successfully created {n1} walls!",
                             s.createdCount, -1, "")), "complete")

\* Mutant: progress is reported before the batch is counted.
AfterBatchStale(s) ==
    LET batch == s.calls[Len(s.calls)].batch
        u == IF s.i + BATCH_SIZE < Len(s.wallData)
             THEN Push(s, Note("info", "Created {n1} of {n2} walls...",
                               s.createdCount, s.totalWalls, ""))
             ELSE s
    IN  ImportLoop([u EXCEPT !.createdCount = @ + Len(batch), !.i = s.i + BATCH_SIZE])

\* Mutant: progress is reported after every batch, the last one included.
AfterBatchAlways(s) ==
    LET batch == s.calls[Len(s.calls)].batch
        t == [s EXCEPT !.createdCount = @ + Len(batch)]
        u == Push(t, Note("info", "Created {n1} of {n2} walls...",
                          t.createdCount, s.totalWalls, ""))
    IN  ImportLoop([u EXCEPT !.i = s.i + BATCH_SIZE])

\* processWallImport, the loop body after its await: count the batch, report
\* progress if another batch remains, and go round the loop.
AfterBatch(s) ==
    LET batch == s.calls[Len(s.calls)].batch
        t == [s EXCEPT !.createdCount = @ + Len(batch)]
        u == IF s.i + BATCH_SIZE < Len(s.wallData)
             THEN Push(t, Note("info", "Created {n1} of {n2} walls...",
                               t.createdCount, s.totalWalls, ""))
             ELSE t
    IN  ImportLoop([u EXCEPT !.i = s.i + BATCH_SIZE])

\* Mutant: the batch is counted before its call is awaited, so the catch
\* block is reached with the failed batch counted.
ImportCatchCounted(s, msg) ==
    LET counted == IF s.calls = <<>> THEN 0 ELSE Len(s.calls[Len(s.calls)].batch) IN
    Finish(Push([s EXCEPT !.createdCount = @ + counted],
                Note("error", "Error processing walls:{err}", -1, -1, msg)), "failed")

\* Mutant: the error of a batch is caught inside the loop, which goes on
\* with the next batch.
ImportCatchContinues(s, msg) ==
    IF s.calls = <<>>
    THEN Finish(Push(s, Note("error", "Error processing walls:{err}", -1, -1, msg)), "failed")
    ELSE ImportLoop([Push(s, Note("error", "Error processing walls:{err}", -1, -1, msg))
                       EXCEPT !.i = @ + BATCH_SIZE])

\* Mutant: the catch block reports the error and submits the batch again.
ImportCatchRetry(s, msg) ==
    IF s.calls = <<>>
    THEN Finish(Push(s, Note("error", "Error processing walls:{err}", -1, -1, msg)), "failed")
    ELSE [Push(s, Note("error", "Error processing walls:{err}", -1, -1, msg))
            EXCEPT !.pc = "create",
                   !.calls = Append(@, [s.calls[Len(s.calls)] EXCEPT !.result = "pending"])]

\* processWallImport, its catch block.
ImportCatch(s, msg) ==
    Finish(Push(s, Note("error", "Error processing walls:{err}", -1, -1, msg)), "failed")

\* processWallImport after the padding check: strip the identities, announce
\* the total, enter the loop.
ImportPrepared(s) ==
    LET wallData == MapStripIdentity(s.walls)
        t == [s EXCEPT !.wallData = wallData, !.totalWalls = Len(wallData),
                       !.createdCount = 0, !.i = 0]
    IN  ImportLoop(Push(t, Note("info", "Creating {n1} walls...", Len(wallData), -1, "")))

\* Mutant: the parsed value is used without the Array.isArray test.
processWallImportUnchecked(s0, text) ==
    LET s == [s0 EXCEPT !.text = text] IN
    IF text.kind # "json"
    THEN ImportCatch(s, ParseError)
    ELSE LET t == [s EXCEPT !.walls = text.items] IN
         IF current = NoScene
         THEN Finish(Push(t, Note("error", "No active scene", -1, -1, "")), "failed")
         ELSE LET u == [t EXCEPT !.scene = current] IN
              IF scenes[current].padding # 0
              THEN showPaddingWarning(u, "import")
              ELSE ImportPrepared(u)

\* processWallImport from its entry to its first await (the padding dialog
\* or the first bulk-create) or to its end.
processWallImport(s0, text) ==
    LET s == [s0 EXCEPT !.text = text] IN
    IF text.kind # "json"
    THEN ImportCatch(s, ParseError)
    ELSE IF text.type # "array"
    THEN Finish(Push(s, Note("error", "Invalid wall data format. Expected an array of walls.",
                             -1, -1, "")), "failed")
    ELSE LET t == [s EXCEPT !.walls = text.items] IN
         IF current = NoScene
         THEN Finish(Push(t, Note("error", "No active scene", -1, -1, "")), "failed")
         ELSE LET u == [t EXCEPT !.scene = current] IN
              IF scenes[current].padding # 0
              THEN showPaddingWarning(u, "import")
              ELSE ImportPrepared(u)

\* History: the import of slot p has entered its loop (its first bulk-create
\* is issued, or it is complete at once for N = 0) on a scene that holds
\* base documents.
ImportHistory(p, s) ==
    IF s.op \in {"importClipboard", "importFile"}
       /\ (s.pc = "create" \/ (s.pc = "done" /\ s.outcome = "complete"))
    THEN [scene |-> s.scene, base |-> Len(scenes[s.scene].walls), payload |-> s.walls,
          owner |-> p, done |-> s.pc = "done"]
    ELSE lastImport

---------------------------------------------------------------------------
(* Actions: wall import *)

Settled == {"idle", "done", "stuck"}

\* A patient user triggers an operation when none is in flight (none of this
\* module's buttons or macros is used again before the last one has ended
\* or got stuck); the invocation takes the first slot.  The buttons
\* themselves are never disabled: a user who does not wait triggers an
\* operation at any time, and the invocation takes the next unused slot.
MayStart(p) ==
    IF patient
    THEN p = 1 /\ \A q \in Procs : inv[q].pc \in Settled
    ELSE inv[p].pc = "idle" /\ \A q \in 1..(p - 1) : inv[q].pc # "idle"

\* How many imports the model lets the user start.
ImportCap == IF patient THEN MaxImports ELSE MaxProcs

\* WallUtils.importWallsFromClipboard up to the await of readText.
importWallsFromClipboard(p) ==
    /\ MayStart(p)
    /\ imports < ImportCap
    /\ imports' = imports + 1
    /\ inv' = [inv EXCEPT ![p] =
                 Push([Fresh EXCEPT !.op = "importClipboard", !.pc = "clipRead"],
                      Note("info", "Reading wall data from clipboard...", -1, -1, ""))]
    /\ UNCHANGED <<hook, scenes, current, viewed, patient, nextId, lastImport>>

\* navigator.clipboard.readText() resolves: processWallImport(text).
ClipboardReadResolved(p) ==
    /\ inv[p].pc = "clipRead"
    /\ \E text \in ReadableTexts :
         LET s == processWallImport(inv[p], text) IN
         /\ inv' = [inv EXCEPT ![p] = s]
         /\ lastImport' = ImportHistory(p, s)
    /\ UNCHANGED <<hook, scenes, current, viewed, patient, nextId, imports>>

\* navigator.clipboard.readText() rejects: the catch of importWallsFromClipboard.
ClipboardReadRejected(p) ==
    /\ inv[p].pc = "clipRead"
    /\ \E msg \in ClipboardErrors :
         inv' = [inv EXCEPT ![p] =
                   Finish(Push(@, Note("error", "Failed to read clipboard: {err}", -1, -1, msg)),
                          "failed")]
    /\ UNCHANGED <<hook, scenes, current, viewed, patient, nextId, imports, lastImport>>

\* WallUtils.importWallsFromFile: the file input is created and clicked.
importWallsFromFile(p) ==
    /\ MayStart(p)
    /\ imports < ImportCap
    /\ imports' = imports + 1
    /\ inv' = [inv EXCEPT ![p] = [Fresh EXCEPT !.op = "importFile", !.pc = "filePick"]]
    /\ UNCHANGED <<hook, scenes, current, viewed, patient, nextId, lastImport>>

\* input.onchange with a file, then reader.onload: processWallImport(text).
FileLoaded(p) ==
    /\ inv[p].pc = "filePick"
    /\ \E text \in ReadableTexts :
         LET s == processWallImport(inv[p], text) IN
         /\ inv' = [inv EXCEPT ![p] = s]
         /\ lastImport' = ImportHistory(p, s)
    /\ UNCHANGED <<hook, scenes, current, viewed, patient, nextId, imports>>

\* input.onchange without a file (if (!file) return), or the picker
\* dismissed: nothing more runs.
FileNotLoaded(p) ==
    /\ inv[p].pc = "filePick"
    /\ inv' = [inv EXCEPT ![p] = Finish(@, "none")]
    /\ UNCHANGED <<hook, scenes, current, viewed, patient, nextId, imports, lastImport>>

\* reader.readAsText(file) fails: the reader has an onload handler and no
\* onerror handler, so nothing more runs.
FileReadFailed(p) ==
    /\ inv[p].pc = "filePick"
    /\ inv' = [inv EXCEPT ![p] = Finish(@, "failed")]
    /\ UNCHANGED <<hook, scenes, current, viewed, patient, nextId, imports, lastImport>>

\* How the host answered the last bulk-create call of s.
Returned(s, result) == [s EXCEPT !.calls[Len(s.calls)].result = result]

\* The answers a failing bulk-create may have committed of its batch before
\* raising: the host decides (none, or its first record).
HostPartial(batch) == {k \in {0, 1} : k < Len(batch)}

\* await scene.createEmbeddedDocuments("Wall", batch) resolves: the host has
\* created the batch; the loop body goes on to the next await or to the end.
CreateResolved(p) ==
    /\ inv[p].pc = "create"
    /\ LET s == inv[p]
           call == s.calls[Len(s.calls)]
           v == AfterBatch(Returned(s, "resolved"))
           h == IF lastImport.owner = p THEN lastImport ELSE NoImport
       IN  /\ scenes' = [scenes EXCEPT ![call.scene].walls = HostCreate(@, call.batch, nextId)]
           /\ nextId' = nextId + Len(call.batch)
           /\ inv' = [inv EXCEPT ![p] = v]
           /\ lastImport' = [h EXCEPT !.done = (v.pc = "done" /\ h.owner = p)]
    /\ UNCHANGED <<hook, current, viewed, patient, imports>>

\* await scene.createEmbeddedDocuments("Wall", batch) rejects: the catch of
\* processWallImport.
CreateRejected(p) ==
    /\ inv[p].pc = "create"
    /\ LET s == inv[p]
           call == s.calls[Len(s.calls)]
       IN  \E msg \in HostErrors, k \in HostPartial(call.batch) :
             /\ scenes' = [scenes EXCEPT ![call.scene].walls =
                             HostCreate(@, SubSeq(call.batch, 1, k), nextId)]
             /\ nextId' = nextId + k
             /\ inv' = [inv EXCEPT ![p] = ImportCatch(Returned(s, "rejected"), msg)]
    /\ lastImport' = IF lastImport.owner = p THEN lastImport ELSE NoImport
    /\ UNCHANGED <<hook, current, viewed, patient, imports>>

---------------------------------------------------------------------------
(* Wall export *)

IsSpace(ch) == ch \in {" ", "\t", "\n"}

\* name.replace(/\s+/g, "_"): every run of whitespace becomes one underscore.
RECURSIVE ReplaceWhitespace(_)
ReplaceWhitespace(name) ==
    IF name = <<>> THEN <<>>
    ELSE IF IsSpace(Head(name))
         THEN IF Len(name) > 1 /\ IsSpace(name[2])
              THEN ReplaceWhitespace(Tail(name))
              ELSE <<"_">> \o ReplaceWhitespace(Tail(name))
         ELSE <<Head(name)>> \o ReplaceWhitespace(Tail(name))

\* Mutant: the walls that are doors are left out of the export.
WallsJsonNoDoors(s) ==
    LET docs == SelectSeq(scenes[s.scene].walls, LAMBDA w : w.door = 0) IN
    [s EXCEPT !.json = JsonArray([k \in 1..Len(docs) |-> ToObject(docs[k])]),
              !.pc = "returned"]

\* getWallsJson after the padding check: scene.walls.map(wall => wall.toObject())
\* and JSON.stringify.
WallsJson(s) ==
    LET docs == scenes[s.scene].walls IN
    [s EXCEPT !.json = JsonArray([k \in 1..Len(docs) |-> ToObject(docs[k])]),
              !.pc = "returned"]

\* Mutant: the walls are read and serialized before the padding check.
getWallsJsonReadFirst(s) ==
    IF current = NoScene THEN [s EXCEPT !.pc = "threw"]
    ELSE LET t == WallsJson([s EXCEPT !.scene = current]) IN
         IF scenes[current].padding # 0
         THEN showPaddingWarning(t, "export")
         ELSE t

\* getWallsJson from its entry to its await of the padding dialog, its throw
\* or its return.
getWallsJson(s) ==
    IF current = NoScene THEN [s EXCEPT !.pc = "threw"]
    ELSE LET t == [s EXCEPT !.scene = current] IN
         IF scenes[current].padding # 0
         THEN showPaddingWarning(t, "export")
         ELSE WallsJson(t)

\* exportWallsToClipboard around getWallsJson: the clipboard write it awaits,
\* or its catch.
ClipboardExport(g) ==
    IF g.pc = "returned"
    THEN [g EXCEPT !.pc = "clipWrite", !.clip = Append(@, g.json)]
    ELSE IF g.pc = "threw"
    THEN Finish(Push(g, Note("error", "Failed to copy walls to clipboard.", -1, -1, "")),
                "failed")
    ELSE g

\* Mutant: the export writes the serialized walls back to the scene.
FileExportWritesBack(g) ==
    IF g.pc = "returned"
    THEN Finish(Push([g EXCEPT !.calls = Append(@, [scene |-> g.scene, type |-> "Wall",
                                                   batch |-> g.json.items,
                                                   result |-> "resolved"])],
                     Note("info", "Walls exported successfully.", -1, -1, "")), "complete")
    ELSE IF g.pc = "threw"
    THEN Finish(Push(g, Note("error", "Failed to export walls.", -1, -1, "")), "failed")
    ELSE g

\* exportWallsToFile around getWallsJson: saveDataToFile and the success
\* notification, or its catch.
FileExport(g) ==
    IF g.pc = "returned"
    THEN Finish(Push([g EXCEPT !.saved = Append(@,
                        [name |-> ReplaceWhitespace(scenes[g.scene].name)
                                    \o <<"_walls.json">>,
                         data |-> g.json])],
                     Note("info", "Walls exported successfully.", -1, -1, "")), "complete")
    ELSE IF g.pc = "threw"
    THEN Finish(Push(g, Note("error", "Failed to export walls.", -1, -1, "")), "failed")
    ELSE g

\* WallUtils.exportWallsToClipboard up to its first await or its end.
exportWallsToClipboard(p) ==
    /\ MayStart(p)
    /\ inv' = [inv EXCEPT ![p] =
                 ClipboardExport(getWallsJson([Fresh EXCEPT !.op = "exportClipboard"]))]
    /\ UNCHANGED <<hook, scenes, current, viewed, patient, nextId, imports, lastImport>>

\* WallUtils.exportWallsToFile up to its first await or its end.
exportWallsToFile(p) ==
    /\ MayStart(p)
    /\ inv' = [inv EXCEPT ![p] =
                 LET s == [Fresh EXCEPT !.op = "exportFile"] IN
                 IF current = NoScene \/ scenes[current].name = <<>>
                 THEN Finish(Push(s, Note("error", "No active scene found.", -1, -1, "")),
                             "failed")
                 ELSE FileExport(getWallsJson(s))]
    /\ UNCHANGED <<hook, scenes, current, viewed, patient, nextId, imports, lastImport>>

\* await navigator.clipboard.writeText(json) resolves.
ClipboardWriteResolved(p) ==
    /\ inv[p].pc = "clipWrite"
    /\ inv' = [inv EXCEPT ![p] =
                 Finish(Push(@, Note("info", "Walls copied to clipboard successfully.",
                                     -1, -1, "")), "complete")]
    /\ UNCHANGED <<hook, scenes, current, viewed, patient, nextId, imports, lastImport>>

\* await navigator.clipboard.writeText(json) rejects: the catch of
\* exportWallsToClipboard.
ClipboardWriteRejected(p) ==
    /\ inv[p].pc = "clipWrite"
    /\ inv' = [inv EXCEPT ![p] =
                 Finish(Push(@, Note("error", "Failed to copy walls to clipboard.",
                                     -1, -1, "")), "failed")]
    /\ UNCHANGED <<hook, scenes, current, viewed, patient, nextId, imports, lastImport>>

---------------------------------------------------------------------------
(* The padding dialog of showPaddingWarning *)

\* The dialog's answer, as the user gave it.
Answered(s, answer) == [s EXCEPT !.confirms[Len(s.confirms)].answer = answer]

\* The caller of showPaddingWarning after resolve(true).
Confirmed(s) ==
    CASE s.op \in {"importClipboard", "importFile"} -> ImportPrepared(s)
      [] s.op = "exportClipboard" -> ClipboardExport(WallsJson(s))
      [] s.op = "exportFile" -> FileExport(WallsJson(s))

\* Mutant: the answer of the dialog is not looked at.
DeclinedIgnored(s) == Confirmed(s)

\* The caller of showPaddingWarning after resolve(false): processWallImport
\* returns; getWallsJson throws "Wall export cancelled." into the catch of
\* its caller.
Declined(s) ==
    CASE s.op \in {"importClipboard", "importFile"} -> Finish(s, "aborted")
      [] s.op = "exportClipboard" ->
           Finish(Push(s, Note("error", "Failed to copy walls to clipboard.", -1, -1, "")),
                  "aborted")
      [] s.op = "exportFile" ->
           Finish(Push(s, Note("error", "Failed to export walls.", -1, -1, "")), "aborted")

\* "Continue anyway": resolve(true).
ConfirmContinue(p) ==
    /\ inv[p].pc = "confirm"
    /\ LET t == Confirmed(Answered(inv[p], "continue")) IN
       /\ inv' = [inv EXCEPT ![p] = t]
       /\ lastImport' = ImportHistory(p, t)
    /\ UNCHANGED <<hook, scenes, current, viewed, patient, nextId, imports>>

\* "Cancel": resolve(false).
ConfirmCancel(p) ==
    /\ inv[p].pc = "confirm"
    /\ inv' = [inv EXCEPT ![p] = Declined(Answered(inv[p], "cancel"))]
    /\ UNCHANGED <<hook, scenes, current, viewed, patient, nextId, imports, lastImport>>

\* The dialog is closed without a button: neither callback runs and the
\* promise of showPaddingWarning never resolves.
ConfirmDismissed(p) ==
    /\ inv[p].pc = "confirm"
    /\ inv' = [inv EXCEPT ![p] = [Answered(inv[p], "dismissed") EXCEPT !.pc = "stuck"]]
    /\ UNCHANGED <<hook, scenes, current, viewed, patient, nextId, imports, lastImport>>

---------------------------------------------------------------------------
(* Tile compositor: exportSceneTilesAsImage *)

\* A tile of scene.tiles.contents.  Its own fields x, y, width, height (0
\* also stands for an undefined field: both are falsy), texture (texture.src)
\* and img ("": none); and its nested document, if it has one.
NoDoc == [present |-> FALSE, x |-> 0, y |-> 0, width |-> 0, height |-> 0,
          texture |-> "", img |-> ""]

Tile(x, y, width, height, texture, img, doc) ==
    [x |-> x, y |-> y, width |-> width, height |-> height,
     texture |-> texture, img |-> img, doc |-> doc]

Doc(x, y, width, height, texture, img) ==
    [present |-> TRUE, x |-> x, y |-> y, width |-> width, height |-> height,
     texture |-> texture, img |-> img]

Units(n) == n * Denom

\* a || b on numbers.
OrNum(a, b) == IF a # 0 THEN a ELSE b

\* Mutant: the position is read from the tile's own field only.
TileXOwn(t) == OrNum(t.x, 0)

\* tileData.width || tileData.document?.width || 0, and the like.
TileWidth(t) == OrNum(t.width, OrNum(IF t.doc.present THEN t.doc.width ELSE 0, 0))
TileHeight(t) == OrNum(t.height, OrNum(IF t.doc.present THEN t.doc.height ELSE 0, 0))
TileX(t) == OrNum(t.x, OrNum(IF t.doc.present THEN t.doc.x ELSE 0, 0))
TileY(t) == OrNum(t.y, OrNum(IF t.doc.present THEN t.doc.y ELSE 0, 0))

\* Mutant: the nested document's texture is looked at first.
TextureSrcNestedFirst(t) ==
    IF t.doc.present /\ t.doc.texture # "" THEN t.doc.texture
    ELSE IF t.texture # "" THEN t.texture
    ELSE IF t.img # "" THEN t.img
    ELSE IF t.doc.present /\ t.doc.img # "" THEN t.doc.img
    ELSE ""

\* The texture path: texture.src, document.texture.src, img, document.img,
\* the first that is set; "" stands for null.
TextureSrc(t) ==
    IF t.texture # "" THEN t.texture
    ELSE IF t.doc.present /\ t.doc.texture # "" THEN t.doc.texture
    ELSE IF t.img # "" THEN t.img
    ELSE IF t.doc.present /\ t.doc.img # "" THEN t.doc.img
    ELSE ""

Max2(a, b) == IF a >= b THEN a ELSE b

\* Infinity: above every coordinate of the model.
Infinity == Units(MAX_DIMENSION) * 4

\* The first pass over the tiles, after its first k iterations.
RECURSIVE FirstPass(_, _)
FirstPass(tiles, k) ==
    IF k = 0
    THEN [minX |-> Infinity, minY |-> Infinity, maxX |-> 0 - Infinity, maxY |-> 0 - Infinity]
    ELSE LET b == FirstPass(tiles, k - 1)
             t == tiles[k]
         IN  [minX |-> Min2(b.minX, TileX(t)),
              minY |-> Min2(b.minY, TileY(t)),
              maxX |-> Max2(b.maxX, TileX(t) + TileWidth(t)),
              maxY |-> Max2(b.maxY, TileY(t) + TileHeight(t))]

\* Mutant: the bounds are used as the first pass left them.
DimensionsAsFound(b) == b

\* if (maxX <= minX) maxX = minX + 1; if (maxY <= minY) maxY = minY + 1;
ValidDimensions(b) ==
    [b EXCEPT !.maxX = IF b.maxX <= b.minX THEN b.minX + Units(1) ELSE @,
              !.maxY = IF b.maxY <= b.minY THEN b.minY + Units(1) ELSE @]

\* Mutant: Math.floor instead of Math.ceil.
Floor(v) == v \div Denom

\* Math.ceil of v/Denom.
Ceil(v) == 0 - ((0 - v) \div Denom)

\* Mutant: the image loads are not awaited: every remaining tile's load is
\* started at once.
RECURSIVE TileLoopNoAwait(_)
TileLoopNoAwait(s) ==
    IF s.idx > Len(s.tiles)
    THEN [s EXCEPT !.pc = IF s.pending = {} THEN "encode" ELSE "load"]
    ELSE LET src == TextureSrc(s.tiles[s.idx]) IN
         IF src = ""
         THEN TileLoopNoAwait([s EXCEPT !.failedCount = @ + 1, !.idx = @ + 1,
                                 !.events = Append(@, [kind |-> "nosrc", tile |-> s.idx,
                                                       at |-> <<>>])])
         ELSE TileLoopNoAwait([s EXCEPT !.pending = @ \cup {s.idx}, !.idx = @ + 1,
                                 !.events = Append(@, [kind |-> "load", tile |-> s.idx,
                                                       at |-> <<src>>])])

\* Mutant: a loop that ends with failed tiles ends the export as failed.
RECURSIVE TileLoopStrict(_)
TileLoopStrict(s) ==
    IF s.idx > Len(s.tiles)
    THEN IF s.failedCount > 0
         THEN Finish(Push(s, Note("error", "{n1} tiles could not be loaded or drawn.",
                                  s.failedCount, -1, "")), "failed")
         ELSE [s EXCEPT !.pc = "encode"]
    ELSE LET src == TextureSrc(s.tiles[s.idx]) IN
         IF src = ""
         THEN TileLoopStrict([s EXCEPT !.failedCount = @ + 1, !.idx = @ + 1,
                                 !.events = Append(@, [kind |-> "nosrc", tile |-> s.idx,
                                                       at |-> <<>>])])
         ELSE [s EXCEPT !.pc = "load", !.pending = @ \cup {s.idx},
                        !.events = Append(@, [kind |-> "load", tile |-> s.idx,
                                              at |-> <<src>>])]

\* The tile loop from its next tile to the image load it awaits; past the
\* loop, the warning about failed tiles and the toBlob it awaits.
RECURSIVE TileLoop(_)
TileLoop(s) ==
    IF s.idx > Len(s.tiles)
    THEN LET w == IF s.failedCount > 0
                  THEN Push(s, Note("warn", "{n1} tiles could not be loaded or drawn.",
                                    s.failedCount, -1, ""))
                  ELSE s
         IN  [w EXCEPT !.pc = "encode"]
    ELSE LET src == TextureSrc(s.tiles[s.idx]) IN
         IF src = ""
         THEN TileLoop([s EXCEPT !.failedCount = @ + 1, !.idx = @ + 1,
                                 !.events = Append(@, [kind |-> "nosrc", tile |-> s.idx,
                                                       at |-> <<>>])])
         ELSE [s EXCEPT !.pc = "load", !.pending = @ \cup {s.idx},
                        !.events = Append(@, [kind |-> "load", tile |-> s.idx,
                                              at |-> <<src>>])]

\* exportSceneTilesAsImage from the bounds computation to its first await.
Composite(s) ==
    LET b == ValidDimensions(FirstPass(s.tiles, Len(s.tiles)))
        canvasWidth == Ceil(b.maxX - b.minX)
        canvasHeight == Ceil(b.maxY - b.minY)
        t == [s EXCEPT !.minX = b.minX, !.minY = b.minY, !.maxX = b.maxX, !.maxY = b.maxY,
                       !.canvasWidth = canvasWidth, !.canvasHeight = canvasHeight]
    IN  IF canvasWidth > MAX_DIMENSION \/ canvasHeight > MAX_DIMENSION
        THEN Finish(Push(t, Note("error", "Canvas size too large ({n1}x{n2}).",
                                 canvasWidth, canvasHeight, "")), "failed")
        ELSE TileLoop(Push([t EXCEPT !.canvas.width = canvasWidth,
                                     !.canvas.height = canvasHeight,
                                     !.loadedCount = 0, !.failedCount = 0, !.idx = 1],
                           Note("info", "Loading tile images...", -1, -1, "")))

\* WallUtils.exportSceneTilesAsImage up to its first await or its end;
\* ctx: whether canvas.getContext('2d') gives a context.
exportSceneTilesAsImage(p) ==
    /\ MayStart(p)
    /\ \E ctx \in BOOLEAN :
         inv' = [inv EXCEPT ![p] =
           LET s == [Fresh EXCEPT !.op = "exportTiles"] IN
           IF current = NoScene
           THEN Finish(Push(s, Note("error", "No active scene found.", -1, -1, "")), "failed")
           ELSE LET t == [s EXCEPT !.scene = current, !.tiles = scenes[current].tiles] IN
                IF Len(t.tiles) = 0
                THEN Finish(Push(t, Note("warn", "The current scene has no tiles to export.",
                                         -1, -1, "")), "empty")
                ELSE LET c == [t EXCEPT !.canvas = [created |-> TRUE, width |-> 300,
                                                    height |-> 150]] IN
                     IF ~ctx
                     THEN Finish(Push(c, Note("error",
                                 "Unable to create canvas context for tile export.",
                                 -1, -1, "")), "failed")
                     ELSE Composite(Push(c, Note("info", "Preparing to export {n1} tiles...",
                                                 Len(c.tiles), -1, "")))]
    /\ UNCHANGED <<hook, scenes, current, viewed, patient, nextId, imports, lastImport>>

\* What the image load of tile k came to, as the browser decided it.
Settle(s, k, kind, at) ==
    [s EXCEPT !.pending = @ \ {k},
              !.events = Append(@, [kind |-> kind, tile |-> k, at |-> at])]

\* The onload handler of tile k when drawImage succeeds: the tile counts as
\* loaded, resolve() lets the loop go on.
OnLoadDrawn(s) == TileLoop([s EXCEPT !.loadedCount = @ + 1, !.idx = @ + 1])

\* Mutant: a drawImage that throws is logged and not counted.
OnLoadDrawThrewUncounted(s) == TileLoop([s EXCEPT !.idx = @ + 1])

\* The onload handler when drawImage throws: the tile counts as failed,
\* resolve() lets the loop go on.
OnLoadDrawThrew(s) == TileLoop([s EXCEPT !.failedCount = @ + 1, !.idx = @ + 1])

\* Mutant: a failed load ends the loop.
OnErrorBreaks(s) ==
    TileLoop([s EXCEPT !.failedCount = @ + 1, !.idx = Len(s.tiles) + 1])

\* The onerror handler: the tile counts as failed, resolve() lets the loop
\* go on.
OnError(s) == TileLoop([s EXCEPT !.failedCount = @ + 1, !.idx = @ + 1])

\* Mutant: the tile is drawn at its scene position, not moved by the
\* minimum bounds.
DrawRectAbsolute(s, t) == <<TileX(t), TileY(t), TileWidth(t), TileHeight(t)>>

\* The arguments of ctx.drawImage for tile t: its destination rectangle.
DrawRect(s, t) ==
    <<TileX(t) - s.minX, TileY(t) - s.minY, TileWidth(t), TileHeight(t)>>

\* img.onload, drawImage succeeds.
ImageLoaded(p) ==
    /\ \E k \in inv[p].pending :
         inv' = [inv EXCEPT ![p] =
                   OnLoadDrawn(Settle(@, k, "draw", DrawRect(@, inv[p].tiles[k])))]
    /\ UNCHANGED <<hook, scenes, current, viewed, patient, nextId, imports, lastImport>>

\* img.onload, drawImage throws.
ImageDrawFailed(p) ==
    /\ \E k \in inv[p].pending :
         inv' = [inv EXCEPT ![p] = OnLoadDrawThrew(Settle(@, k, "drawerr", <<>>))]
    /\ UNCHANGED <<hook, scenes, current, viewed, patient, nextId, imports, lastImport>>

\* img.onerror.
ImageFailed(p) ==
    /\ \E k \in inv[p].pending :
         inv' = [inv EXCEPT ![p] = OnError(Settle(@, k, "loaderr", <<>>))]
    /\ UNCHANGED <<hook, scenes, current, viewed, patient, nextId, imports, lastImport>>

\* canvas.toBlob calls back with a blob: the dynamic import of file-saver is
\* awaited.
BlobEncoded(p) ==
    /\ inv[p].pc = "encode"
    /\ inv' = [inv EXCEPT ![p].pc = "saver", ![p].blob = "png"]
    /\ UNCHANGED <<hook, scenes, current, viewed, patient, nextId, imports, lastImport>>

\* Mutant: the blob is used without the null test.
BlobNullUnchecked(p) ==
    /\ inv[p].pc = "encode"
    /\ inv' = [inv EXCEPT ![p].pc = "saver", ![p].blob = "null"]
    /\ UNCHANGED <<hook, scenes, current, viewed, patient, nextId, imports, lastImport>>

\* canvas.toBlob calls back with null.
BlobNull(p) ==
    /\ inv[p].pc = "encode"
    /\ inv' = [inv EXCEPT ![p] =
                 Finish(Push([@ EXCEPT !.blob = "null"],
                             Note("error", "Failed to create image blob.", -1, -1, "")),
                        "failed")]
    /\ UNCHANGED <<hook, scenes, current, viewed, patient, nextId, imports, lastImport>>

\* scene.name?.replace(/\s+/g, "_") || "scene", then "_tiles.png".
TilesFileName(name) ==
    (IF ReplaceWhitespace(name) = <<>> THEN <<"scene">> ELSE ReplaceWhitespace(name))
        \o <<"_tiles.png">>

\* import('file-saver') resolves: FileSaver.saveAs and the success notification.
FileSaverLoaded(p) ==
    /\ inv[p].pc = "saver"
    /\ LET s == inv[p] IN
       inv' = [inv EXCEPT ![p] =
         Finish(Push([s EXCEPT !.saved = Append(@,
                        [name |-> TilesFileName(scenes[s.scene].name),
                         data |-> [kind |-> "png", type |-> "image/png",
                                   items |-> s.events]])],
                     Note("info", "Scene tiles exported successfully ({n1} tiles).",
                          s.loadedCount, -1, "")), "complete")]
    /\ UNCHANGED <<hook, scenes, current, viewed, patient, nextId, imports, lastImport>>

\* import('file-saver') rejects, or saveAs throws: the inner catch.
FileSaverFailed(p) ==
    /\ inv[p].pc = "saver"
    /\ inv' = [inv EXCEPT ![p] =
                 Finish(Push(@, Note("error", "Failed to export image: {err}", -1, -1,
                                     "Failed to fetch dynamically imported module")),
                        "failed")]
    /\ UNCHANGED <<hook, scenes, current, viewed, patient, nextId, imports, lastImport>>

---------------------------------------------------------------------------
(* copySceneImageUrl *)

\* scene.background?.src: a path relative to the host's origin, an absolute
\* URL on another origin, or none (origin "" : none given).
NoImage == [origin |-> "", path |-> <<>>]
RelativeImage == [origin |-> "", path |-> <<"worlds", "demo", "cave.webp">>]
AbsoluteImage == [origin |-> "https://cdn.example", path |-> <<"maps", "crypt.webp">>]

\* window.location.origin
BaseUrl == "http://localhost:30000"

\* Mutant: the path is copied as the scene gives it, without an origin.
ResolveUrlAsGiven(src, base) == src.path

\* new URL(imageUrl, baseUrl).href: an absolute URL keeps its origin, a
\* relative path is put under the base origin; the href is the origin and
\* the segments of the path, each after a slash.
RECURSIVE Slashed(_)
Slashed(path) ==
    IF path = <<>> THEN <<>> ELSE <<"/", Head(path)>> \o Slashed(Tail(path))

ResolveUrl(src, base) ==
    <<IF src.origin = "" THEN base ELSE src.origin>> \o Slashed(src.path)

\* The text of a URL on the clipboard.
UrlText(href) == [kind |-> "url", type |-> "string", items |-> href]

\* Mutant: the scene is taken from game.scenes.current.
copySceneImageUrlOfCurrent(p) ==
    /\ MayStart(p)
    /\ inv' = [inv EXCEPT ![p] =
         LET s == [Fresh EXCEPT !.op = "copySceneImageUrl"] IN
         IF current = NoScene
         THEN Finish(Push(s, Note("warn", "No scene is currently viewed.", -1, -1, "")),
                     "failed")
         ELSE LET t == [s EXCEPT !.scene = current]
                  imageUrl == scenes[current].background
              IN  IF imageUrl = NoImage
                  THEN Finish(Push(t, Note("warn",
                              "The current scene has no background image.", -1, -1, "")),
                              "empty")
                  ELSE LET fullImageUrl == ResolveUrl(imageUrl, BaseUrl) IN
                       [t EXCEPT !.pc = "urlWrite", !.fullImageUrl = fullImageUrl,
                                 !.clip = Append(@, UrlText(fullImageUrl))]]
    /\ UNCHANGED <<hook, scenes, current, viewed, patient, nextId, imports, lastImport>>

\* WallUtils.copySceneImageUrl up to the await of writeText, or to its end.
copySceneImageUrl(p) ==
    /\ MayStart(p)
    /\ inv' = [inv EXCEPT ![p] =
         LET s == [Fresh EXCEPT !.op = "copySceneImageUrl"] IN
         IF viewed = NoScene
         THEN Finish(Push(s, Note("warn", "No scene is currently viewed.", -1, -1, "")),
                     "failed")
         ELSE LET t == [s EXCEPT !.scene = viewed]
                  imageUrl == scenes[viewed].background
              IN  IF imageUrl = NoImage
                  THEN Finish(Push(t, Note("warn",
                              "The current scene has no background image.", -1, -1, "")),
                              "empty")
                  ELSE LET fullImageUrl == ResolveUrl(imageUrl, BaseUrl) IN
                       [t EXCEPT !.pc = "urlWrite", !.fullImageUrl = fullImageUrl,
                                 !.clip = Append(@, UrlText(fullImageUrl))]]
    /\ UNCHANGED <<hook, scenes, current, viewed, patient, nextId, imports, lastImport>>

\* await navigator.clipboard.writeText(fullImageUrl) resolves: the
\* notification quotes the local fullImageUrl.
UrlWriteResolved(p) ==
    /\ inv[p].pc = "urlWrite"
    /\ inv' = [inv EXCEPT ![p] =
                 Finish(Push(@, Note("info", "Copied scene background URL: {fullImageUrl}",
                                     -1, -1, "")), "complete")]
    /\ UNCHANGED <<hook, scenes, current, viewed, patient, nextId, imports, lastImport>>

\* await navigator.clipboard.writeText(fullImageUrl) rejects: the catch of
\* copySceneImageUrl.
UrlWriteRejected(p) ==
    /\ inv[p].pc = "urlWrite"
    /\ \E msg \in ClipboardErrors :
         inv' = [inv EXCEPT ![p] =
                   Finish(Push(@, Note("error", "Error copying image URL:{err}", -1, -1, msg)),
                          "failed")]
    /\ UNCHANGED <<hook, scenes, current, viewed, patient, nextId, imports, lastImport>>

---------------------------------------------------------------------------
(* The getSceneControlButtons hook *)

\* A tool of a control group; onClick names what the click runs ("": a tool
\* of the host or of another module).
Tool(name, title, icon, onClick, button) ==
    [name |-> name, title |-> title, icon |-> icon, onClick |-> onClick, button |-> button]

\* The three tools of the module.
WallManagementTool ==
    Tool("wall-management", "Wall Import/Export", "fas fa-exchange-alt",
         "new WallManagementDialog().render(true)", TRUE)
CopySceneImageTool ==
    Tool("copy-scene-image", "Copy Scene Image URL", "fas fa-image",
         "WallUtils.copySceneImageUrl()", TRUE)
ExportTilesTool ==
    Tool("export-tiles", "Export Tiles as Image", "fas fa-th-large",
         "WallUtils.exportSceneTilesAsImage()", TRUE)

\* Tools of the host, and tools of another module under two of the module's
\* names.
SelectTool == Tool("select", "Select Walls", "fas fa-expand", "", FALSE)
DoorsTool == Tool("doors", "Draw Doors", "fas fa-door-open", "", FALSE)
ForeignCopyTool == Tool("copy-scene-image", "Copy Image", "fas fa-copy", "", TRUE)
ForeignExportTool == Tool("export-tiles", "Tiles", "fas fa-th", "", TRUE)

\* A control group: its name and its tools; hasTools is false for a group
\* whose tools property is undefined.
Group(name, hasTools, tools) == [name |-> name, hasTools |-> hasTools, tools |-> tools]

ControlNames == {"token", "walls", "lighting"}

\* The walls groups of the model: their tools have distinct names.
WallsGroups ==
    {Group("walls", FALSE, <<>>)} \cup
    {Group("walls", TRUE, tools) :
        tools \in {<<>>, <<SelectTool>>, <<SelectTool, DoorsTool>>,
                   <<ForeignCopyTool, SelectTool>>, <<SelectTool, ForeignExportTool>>,
                   <<WallManagementTool>>}}

\* The controls lists of the model: groups of distinct names in any order,
\* with or without a walls group.
GroupOrders ==
    {names \in UNION {[1..n -> ControlNames] : n \in 0..Cardinality(ControlNames)} :
        \A i, j \in 1..Len(names) : i # j => names[i] # names[j]}

ControlLists ==
    {[i \in 1..Len(names) |->
         IF names[i] = "walls" THEN w ELSE Group(names[i], TRUE, <<SelectTool>>)] :
     names \in GroupOrders, w \in WallsGroups}

\* controls.find(c => c.name === "walls"): the index of the first group of
\* that name, 0 for undefined.
FindWalls(controls) ==
    IF \E i \in 1..Len(controls) : controls[i].name = "walls"
    THEN CHOOSE i \in 1..Len(controls) :
            /\ controls[i].name = "walls"
            /\ \A j \in 1..(i - 1) : controls[j].name # "walls"
    ELSE 0

\* tools.some(t => t.name === name)
Some(tools, name) == \E k \in 1..Len(tools) : tools[k].name = name

\* Mutant: the tools are pushed without looking for them first.
getSceneControlButtonsUnchecked(controls) ==
    LET i == FindWalls(controls) IN
    IF i = 0 \/ ~controls[i].hasTools
    THEN controls
    ELSE [controls EXCEPT ![i].tools =
            @ \o <<WallManagementTool, CopySceneImageTool, ExportTilesTool>>]

\* The function registered with Hooks.on('getSceneControlButtons'): the
\* controls list as it leaves it.
getSceneControlButtons(controls) ==
    LET i == FindWalls(controls) IN
    IF i = 0 \/ ~controls[i].hasTools
    THEN controls
    ELSE LET tools == controls[i].tools
             hasWallManagement == Some(tools, "wall-management")
             hasCopyImage == Some(tools, "copy-scene-image")
             tools1 == IF ~hasWallManagement THEN Append(tools, WallManagementTool)
                                             ELSE tools
             tools2 == IF ~hasCopyImage THEN Append(tools1, CopySceneImageTool)
                                        ELSE tools1
             hasExportTiles == Some(tools2, "export-tiles")
             tools3 == IF ~hasExportTiles THEN Append(tools2, ExportTilesTool)
                                          ELSE tools2
         IN  [controls EXCEPT ![i].tools = tools3]

\* No controls list has been built.
NoHook == [controls |-> <<>>, given |-> <<>>, runs |-> 0]

\* The host calls the hook on the controls list: given is the list as the
\* host built it, runs the number of calls so far.
HooksCall ==
    /\ hook.runs < MaxHooks
    /\ hook' = [hook EXCEPT !.controls = getSceneControlButtons(@), !.runs = @ + 1]
    /\ UNCHANGED <<scenes, current, viewed, patient, nextId, inv, imports, lastImport>>

---------------------------------------------------------------------------
(* The host *)

\* Another scene becomes game.scenes.viewed, or none is.
ViewScene ==
    /\ \E sc \in SceneIds \cup {NoScene} : sc # viewed /\ viewed' = sc
    /\ UNCHANGED <<hook, scenes, current, patient, nextId, inv, imports, lastImport>>

\* Another scene becomes game.scenes.current, or none is.
ActivateScene ==
    /\ \E sc \in SceneIds \cup {NoScene} : sc # current /\ current' = sc
    /\ UNCHANGED <<hook, scenes, viewed, patient, nextId, inv, imports, lastImport>>

---------------------------------------------------------------------------
(* The wall pipeline: one user, who triggers an operation when none is in flight *)

InitialScenes ==
    [id \in SceneIds |->
        IF id = "s1"
        THEN [padding |-> 0, name |-> <<"C", "a", "v", "e", " ", " ", "1">>,
              background |-> RelativeImage,
              walls |-> <<>>, tiles |-> <<>>]
        ELSE [padding |-> 5, name |-> <<"C", "r", "y", "p", "t">>,
              background |-> NoImage,
              walls |-> <<[_id |-> 1, c |-> 0, door |-> 0]>>, tiles |-> <<>>]]

Init ==
    /\ scenes = InitialScenes
    /\ current \in SceneIds \cup {NoScene}
    /\ viewed = current
    /\ patient = TRUE
    /\ nextId = 2
    /\ inv = [p \in Procs |-> Fresh]
    /\ imports = 0
    /\ hook = NoHook
    /\ lastImport = NoImport

Next ==
    \E p \in Procs :
        \/ importWallsFromClipboard(p)
        \/ importWallsFromFile(p)
        \/ exportWallsToClipboard(p)
        \/ exportWallsToFile(p)
        \/ ClipboardReadResolved(p)
        \/ ClipboardReadRejected(p)
        \/ FileLoaded(p)
        \/ FileNotLoaded(p)
        \/ FileReadFailed(p)
        \/ ConfirmContinue(p)
        \/ ConfirmCancel(p)
        \/ ConfirmDismissed(p)
        \/ CreateResolved(p)
        \/ CreateRejected(p)
        \/ ClipboardWriteResolved(p)
        \/ ClipboardWriteRejected(p)
        \/ ActivateScene

Spec == Init /\ [][Next]_vars

\* The wall pipeline with collaborators that answer: every clipboard read,
\* file pick, bulk-create call and clipboard write that is awaited comes
\* back, one way or the other, and every padding dialog shown is answered
\* or closed.
Answers(p) ==
    /\ WF_vars(ClipboardReadResolved(p) \/ ClipboardReadRejected(p))
    /\ WF_vars(FileLoaded(p) \/ FileNotLoaded(p) \/ FileReadFailed(p))
    /\ WF_vars(CreateResolved(p) \/ CreateRejected(p))
    /\ WF_vars(ClipboardWriteResolved(p) \/ ClipboardWriteRejected(p))
    /\ WF_vars(ConfirmContinue(p) \/ ConfirmCancel(p) \/ ConfirmDismissed(p))

SpecLive == Init /\ [][Next]_vars /\ \A p \in Procs : Answers(p)

---------------------------------------------------------------------------
(* The tile pipeline: the scenes hold tiles, and the user exports them *)

\* The tiles of the model, in units: the two tiles of the specification's
\* example; a nested-document tile of no extent at a negative, fractional
\* position; a tile exactly MAX_DIMENSION wide; a tile a fraction higher than
\* MAX_DIMENSION; a tile with no image source; a tile whose own fields and
\* nested document both give a texture.
ExampleTileA == Tile(Units(10), Units(20), Units(5), Units(5), "a.png", "", NoDoc)
ExampleTileB == Tile(0, 0, Units(2), Units(2), "", "b.png", NoDoc)
PointTile == Tile(0, 0, 0, 0, "", "", Doc(0 - Units(3) - 1, 0 - Units(1), 0, 0, "", "c.png"))
WidestTile == Tile(0, 0, Units(MAX_DIMENSION), Units(1), "d.png", "", NoDoc)
TooHighTile == Tile(0 - 1, 0, 1, Units(MAX_DIMENSION) + 1, "e.png", "", NoDoc)

NoSourceTile == Tile(Units(1), Units(1), Units(1), Units(1), "", "", NoDoc)
BothTexturesTile ==
    Tile(Units(4), 0 - Units(2), Units(3), Units(1), "g.png", "",
         Doc(Units(4), 0 - Units(2), Units(3), Units(1), "g-doc.png", ""))
\* A tile whose nested document has a texture and which has an img of its
\* own; a tile with an img of its own and one in its nested document.
NestedTextureTile ==
    Tile(0, 0, Units(1), Units(1), "", "h.png",
         Doc(0, 0, Units(1), Units(1), "h-doc-texture.png", "h-doc.png"))
BothImgTile ==
    Tile(Units(2), 0, Units(1), Units(1), "", "i.png",
         Doc(Units(2), 0, Units(1), Units(1), "", "i-doc.png"))

TileUniverse ==
    {ExampleTileA, ExampleTileB, PointTile, WidestTile, TooHighTile,
     NoSourceTile, BothTexturesTile, NestedTextureTile, BothImgTile}

TileSets == UNION {[1..n -> TileUniverse] : n \in 0..MaxTiles}

InitTiles ==
    /\ \E ts \in TileSets : scenes = [InitialScenes EXCEPT !["s1"].tiles = ts]
    /\ current \in {"s1", NoScene}
    /\ viewed = current
    /\ patient = TRUE
    /\ nextId = 2
    /\ inv = [p \in Procs |-> Fresh]
    /\ imports = 0
    /\ hook = NoHook
    /\ lastImport = NoImport

NextTiles ==
    \E p \in Procs :
        \/ exportSceneTilesAsImage(p)
        \/ ImageLoaded(p)
        \/ ImageDrawFailed(p)
        \/ ImageFailed(p)
        \/ BlobEncoded(p)
        \/ BlobNull(p)
        \/ FileSaverLoaded(p)
        \/ FileSaverFailed(p)

SpecTiles == InitTiles /\ [][NextTiles]_vars

---------------------------------------------------------------------------
(* Re-entrant use: a user who triggers operations without waiting for the
   earlier ones to end.  An import reads, from the clipboard, two batches of
   records or text that is not JSON; the current scene is the one with
   padding, and has one tile. *)

InitReentrant ==
    /\ scenes = [InitialScenes EXCEPT !["s2"].tiles = <<ExampleTileB>>]
    /\ current = "s2"
    /\ viewed = current
    /\ patient = FALSE
    /\ nextId = 2
    /\ inv = [p \in Procs |-> Fresh]
    /\ imports = 0
    /\ hook = NoHook
    /\ lastImport = NoImport

NextReentrant ==
    \E p \in Procs :
        \/ importWallsFromClipboard(p)
        \/ exportWallsToClipboard(p)
        \/ exportWallsToFile(p)
        \/ ClipboardReadResolved(p)
        \/ ClipboardReadRejected(p)
        \/ ClipboardWriteResolved(p)
        \/ ClipboardWriteRejected(p)
        \/ ConfirmContinue(p)
        \/ ConfirmCancel(p)
        \/ ConfirmDismissed(p)
        \/ CreateResolved(p)
        \/ CreateRejected(p)
        \/ exportSceneTilesAsImage(p)
        \/ ImageLoaded(p)
        \/ ImageDrawFailed(p)
        \/ ImageFailed(p)
        \/ BlobEncoded(p)
        \/ BlobNull(p)
        \/ FileSaverLoaded(p)
        \/ FileSaverFailed(p)

SpecReentrant == InitReentrant /\ [][NextReentrant]_vars

---------------------------------------------------------------------------
(* The two scene contexts: the host's current scene and its viewed scene are
   set independently of each other, and change while the user works.  The
   scene without padding has a tile and a relative background image; the
   scene with padding has a background image on another origin, or none.
   The user imports once. *)

InitScenes ==
    /\ \E bg \in {NoImage, AbsoluteImage} :
         scenes = [InitialScenes EXCEPT !["s1"].tiles = <<ExampleTileB>>,
                                        !["s2"].background = bg]
    /\ current \in SceneIds \cup {NoScene}
    /\ viewed \in SceneIds \cup {NoScene}
    /\ patient = TRUE
    /\ nextId = 2
    /\ inv = [p \in Procs |-> Fresh]
    /\ imports = MaxImports - 1
    /\ hook = NoHook
    /\ lastImport = NoImport

NextScenes ==
    \/ ActivateScene
    \/ ViewScene
    \/ \E p \in Procs :
        \/ importWallsFromClipboard(p)
        \/ importWallsFromFile(p)
        \/ exportWallsToClipboard(p)
        \/ exportWallsToFile(p)
        \/ copySceneImageUrl(p)
        \/ exportSceneTilesAsImage(p)
        \/ ClipboardReadResolved(p)
        \/ ClipboardReadRejected(p)
        \/ FileLoaded(p)
        \/ FileNotLoaded(p)
        \/ FileReadFailed(p)
        \/ ConfirmContinue(p)
        \/ ConfirmCancel(p)
        \/ ConfirmDismissed(p)
        \/ CreateResolved(p)
        \/ CreateRejected(p)
        \/ ClipboardWriteResolved(p)
        \/ ClipboardWriteRejected(p)
        \/ UrlWriteResolved(p)
        \/ UrlWriteRejected(p)
        \/ ImageLoaded(p)
        \/ ImageDrawFailed(p)
        \/ ImageFailed(p)
        \/ BlobEncoded(p)
        \/ BlobNull(p)
        \/ FileSaverLoaded(p)
        \/ FileSaverFailed(p)

SpecScenes == InitScenes /\ [][NextScenes]_vars

---------------------------------------------------------------------------
(* Tool registration: the host builds a controls list and calls the hook on
   it, again and again. *)

InitHook ==
    /\ scenes = InitialScenes
    /\ current = NoScene
    /\ viewed = current
    /\ patient = TRUE
    /\ nextId = 2
    /\ inv = [p \in Procs |-> Fresh]
    /\ imports = 0
    /\ \E controls \in ControlLists :
         hook = [controls |-> controls, given |-> controls, runs |-> 0]
    /\ lastImport = NoImport

NextHook == HooksCall

SpecHook == InitHook /\ [][NextHook]_vars

---------------------------------------------------------------------------
(* Vocabulary of the properties *)

IsImport(s) == s.op \in {"importClipboard", "importFile"}
IsWallExport(s) == s.op \in {"exportClipboard", "exportFile"}
Ended(s, outcome) == s.pc = "done" /\ s.outcome = outcome

\* a is b without its identity: the same fields but "_id", with the same values.
SameButId(a, b) ==
    /\ DOMAIN a \ {"_id"} = DOMAIN b \ {"_id"}
    /\ \A f \in DOMAIN a \ {"_id"} : a[f] = b[f]

\* ceil(n / 100)
CeilDiv100(n) == (n + 99) \div 100

\* The j-th slice of 100 of a bundle of n records: its first and last index.
SliceFirst(j) == (j - 1) * 100 + 1
SliceLast(j, n) == IF j * 100 <= n THEN j * 100 ELSE n

\* The notes of s that carry the template msg.
NotesOf(s, msg) == {k \in 1..Len(s.notes) : s.notes[k].msg = msg}

\* The host raised on a bulk-create call of the import s.
CreateFailed(s) ==
    /\ IsImport(s)
    /\ \E j \in 1..Len(s.calls) : s.calls[j].result = "rejected"

\* The call of s on which the host raised.
FailedCall(s) == CHOOSE j \in 1..Len(s.calls) : s.calls[j].result = "rejected"

\* The padding dialog of s was answered with Cancel.
WasDeclined(s) ==
    /\ s.confirms # <<>>
    /\ s.confirms[Len(s.confirms)].answer = "cancel"

---------------------------------------------------------------------------
(* C1: batching.  Every bulk-create call of an import carries between 1 and
   100 records and its batch is the next slice of 100 of the bundle, in the
   bundle's order and without the identities; an import whose calls all
   succeeded has issued exactly ceil(N/100) calls and counted N created
   walls, which its success notification reports (N = 0: no call, count 0). *)
C1_Batching ==
    \A p \in Procs :
        LET s == inv[p]
            n == Len(s.walls)
        IN  IsImport(s) =>
              /\ \A j \in 1..Len(s.calls) :
                    LET batch == s.calls[j].batch IN
                    /\ Len(batch) \in 1..100
                    /\ Len(batch) = SliceLast(j, n) - SliceFirst(j) + 1
                    /\ \A k \in 1..Len(batch) :
                          SameButId(batch[k], s.walls[SliceFirst(j) + k - 1])
              /\ Ended(s, "complete") =>
                    /\ Len(s.calls) = CeilDiv100(n)
                    /\ s.createdCount = n
                    /\ s.notes[Len(s.notes)] =
                          Note("info", "Successfully created {n1} walls!", n, -1, "")
                    /\ (n = 0 => s.calls = <<>>)

\* An import of 201 records has ended complete after three calls.
C1_Witness ==
    \E p \in Procs :
        /\ IsImport(inv[p]) /\ Ended(inv[p], "complete")
        /\ Len(inv[p].walls) = 201 /\ Len(inv[p].calls) = 3

(* C2: partial commit.  When the k-th bulk-create call of an import raises,
   k calls have been issued and no more, the created count is (k-1)*100, the
   documents of the first k-1 batches are still in the scene, in order, no
   batch was submitted twice, no success notification was emitted, and the
   last notification is an error carrying the message of the host's error. *)
C2_PartialCommit ==
    \A p \in Procs :
        LET s == inv[p]
            k == FailedCall(s)
            h == lastImport
        IN  CreateFailed(s) =>
              /\ Ended(s, "failed")
              /\ Len(s.calls) = k
              /\ \A j \in 1..(k - 1) : s.calls[j].result = "resolved"
              /\ s.createdCount = (k - 1) * 100
              /\ NotesOf(s, "Successfully created {n1} walls!") = {}
              /\ s.notes[Len(s.notes)].level = "error"
              /\ s.notes[Len(s.notes)].msg = "Error processing walls:{err}"
              /\ s.notes[Len(s.notes)].err \in HostErrors
              /\ \A j \in 1..k : s.calls[j].batch = SubSeq(s.wallData, SliceFirst(j),
                                                            SliceLast(j, Len(s.wallData)))
              /\ h.owner = p /\ h.payload = s.walls /\ h.scene = s.scene
              /\ Len(scenes[h.scene].walls) >= h.base + (k - 1) * 100
              /\ \A m \in 1..((k - 1) * 100) :
                    SameButId(scenes[h.scene].walls[h.base + m], s.walls[m])

\* The third bulk-create call of an import of 201 records has raised.
C2_Witness ==
    \E p \in Procs : CreateFailed(inv[p]) /\ FailedCall(inv[p]) = 3

(* C3, as the specification states it: when the k-th bulk-create call
   raises, some notification of the operation states the committed count
   (k-1)*100, for k = 1 too. *)
C3_CommittedCountReported ==
    \A p \in Procs :
        LET s == inv[p] IN
        CreateFailed(s) =>
            \E m \in 1..Len(s.notes) : s.notes[m].n1 = (FailedCall(s) - 1) * 100

(* C3, amended: when the k-th bulk-create call raises, the error notification
   carries the error's message and no count; for k >= 2 the notification
   before it is the progress notification "Created (k-1)*100 of N", and for
   k = 1 no notification of the operation states a created count. *)
C3_ProgressBeforeError ==
    \A p \in Procs :
        LET s == inv[p]
            k == FailedCall(s)
            last == Len(s.notes)
        IN  CreateFailed(s) =>
              /\ s.notes[last].level = "error" /\ s.notes[last].err \in HostErrors
              /\ s.notes[last].n1 = -1 /\ s.notes[last].n2 = -1
              /\ k >= 2 => s.notes[last - 1] =
                              Note("info", "Created {n1} of {n2} walls...",
                                   (k - 1) * 100, Len(s.walls), "")
              /\ k = 1 => /\ NotesOf(s, "Created {n1} of {n2} walls...") = {}
                          /\ \A m \in 1..last : s.notes[m].n1 # 0

\* The second bulk-create call of an import has raised.
C3_Witness ==
    \E p \in Procs : CreateFailed(inv[p]) /\ FailedCall(inv[p]) = 2

(* C4: precondition gating.  An import or wall export whose padding dialog
   was answered with Cancel has read a scene of non-zero padding, has issued
   no createEmbeddedDocuments call, no clipboard write and no file save, and
   has ended. *)
C4_DeclinedAborts ==
    \A p \in Procs :
        LET s == inv[p] IN
        (IsImport(s) \/ IsWallExport(s)) /\ WasDeclined(s) =>
            /\ scenes[s.scene].padding # 0
            /\ s.calls = <<>>
            /\ s.clip = <<>>
            /\ s.saved = <<>>
            /\ s.pc = "done" /\ s.outcome # "complete"

\* An export to the clipboard was declined at the padding dialog.
C4_Witness ==
    \E p \in Procs : inv[p].op = "exportClipboard" /\ WasDeclined(inv[p])

\* An import was declined at the padding dialog.
C4_WitnessImport ==
    \E p \in Procs : IsImport(inv[p]) /\ WasDeclined(inv[p])

(* C7: round trip.  After an import of N records whose calls all succeeded,
   a wall export of the same scene, with nothing created in between, yields
   the scene's earlier documents followed by exactly N records, which are the
   bundle's records in the bundle's order up to their _id; into an empty
   scene, exactly N records. *)
C7_RoundTrip ==
    \A p \in Procs :
        LET s == inv[p]
            h == lastImport
            n == Len(h.payload)
        IN  IsWallExport(s) /\ s.json # NoText /\ h.done /\ h.scene = s.scene =>
              /\ s.json.kind = "json" /\ s.json.type = "array"
              /\ Len(s.json.items) = h.base + n
              /\ \A m \in 1..n : SameButId(s.json.items[h.base + m], h.payload[m])
              /\ \A m \in 1..n : "_id" \in DOMAIN s.json.items[h.base + m]

\* A bundle of 201 records was imported into an empty scene, which was then
\* exported to a file.
C7_Witness ==
    \E p \in Procs :
        /\ inv[p].op = "exportFile" /\ Ended(inv[p], "complete")
        /\ lastImport.done /\ lastImport.scene = inv[p].scene
        /\ lastImport.base = 0 /\ Len(lastImport.payload) = 201
        /\ Len(inv[p].saved[1].data.items) = 201

---------------------------------------------------------------------------
(* Vocabulary of the tile properties *)

IsTileExport(s) == s.op = "exportTiles"

\* The geometry of a tile record: that of its nested document if it has one,
\* its own otherwise.
GeomX(t) == IF t.doc.present THEN t.doc.x ELSE t.x
GeomY(t) == IF t.doc.present THEN t.doc.y ELSE t.y
GeomW(t) == IF t.doc.present THEN t.doc.width ELSE t.width
GeomH(t) == IF t.doc.present THEN t.doc.height ELSE t.height

SetMin(S) == CHOOSE m \in S : \A x \in S : m <= x
SetMax(S) == CHOOSE m \in S : \A x \in S : m >= x

Range(tiles) == {tiles[k] : k \in 1..Len(tiles)}
LeftOf(tiles) == SetMin({GeomX(t) : t \in Range(tiles)})
TopOf(tiles) == SetMin({GeomY(t) : t \in Range(tiles)})
RightOf(tiles) == SetMax({GeomX(t) + GeomW(t) : t \in Range(tiles)})
BottomOf(tiles) == SetMax({GeomY(t) + GeomH(t) : t \in Range(tiles)})

\* The extent the canvas must cover: the span of the tiles, one unit if the
\* span is empty; and its size in whole units, rounded up.
ExtentX(tiles) ==
    IF RightOf(tiles) > LeftOf(tiles) THEN RightOf(tiles) - LeftOf(tiles) ELSE Units(1)
ExtentY(tiles) ==
    IF BottomOf(tiles) > TopOf(tiles) THEN BottomOf(tiles) - TopOf(tiles) ELSE Units(1)
RoundUp(v) == (v + Denom - 1) \div Denom
TooLarge(tiles) ==
    RoundUp(ExtentX(tiles)) > 16384 \/ RoundUp(ExtentY(tiles)) > 16384

\* The export s has a scene, tiles and a 2d context: it has computed bounds.
Computed(s) ==
    /\ IsTileExport(s)
    /\ NotesOf(s, "Preparing to export {n1} tiles...") # {}

\* The events of s that settle a tile: drawn, or failed in one of three ways.
IsOutcome(e) == e.kind \in {"draw", "drawerr", "loaderr", "nosrc"}
Outcomes(s) == SelectSeq(s.events, IsOutcome)
IsFailure(e) == e.kind \in {"drawerr", "loaderr", "nosrc"}
IsDraw(e) == e.kind = "draw"
IsLoad(e) == e.kind = "load"

\* The tile loop of s is over.
LoopOver(s) == IsTileExport(s) /\ (s.pc \in {"encode", "saver"} \/ s.saved # <<>>)

(* C5: draw order.  In one tile export at most one image load is outstanding;
   the load of tile j is started only after every tile before it was drawn
   or counted as failed; so the draws happen in the order of the collection,
   whichever order the loads might complete in. *)
C5_DrawOrder ==
    \A p \in Procs :
        LET s == inv[p]
            e == s.events
        IN  IsTileExport(s) =>
              /\ Cardinality(s.pending) <= 1
              /\ \A q \in 1..Len(e) :
                    IsLoad(e[q]) =>
                       \A i \in 1..(e[q].tile - 1) :
                          \E r \in 1..(q - 1) : IsOutcome(e[r]) /\ e[r].tile = i
              /\ \A q, r \in 1..Len(e) :
                    IsDraw(e[q]) /\ IsDraw(e[r]) /\ e[q].tile < e[r].tile => q < r

\* Two tiles have been drawn.
C5_Witness ==
    \E p \in Procs :
        /\ IsTileExport(inv[p])
        /\ Len(SelectSeq(inv[p].events, IsDraw)) = 2

(* C6: a failed tile never aborts the others.  The tiles are settled one by
   one in the order of the collection, each exactly once; a tile with an
   image source has exactly one load started; when the loop is over every
   tile of the collection is settled, and the two counters count the drawn
   and the failed tiles. *)
C6_FailureTolerance ==
    \A p \in Procs :
        LET s == inv[p]
            o == Outcomes(s)
        IN  IsTileExport(s) =>
              /\ Len(o) <= Len(s.tiles)
              /\ \A m \in 1..Len(o) : o[m].tile = m
              /\ \A m \in 1..Len(o) :
                    Cardinality({q \in 1..Len(s.events) :
                                   IsLoad(s.events[q]) /\ s.events[q].tile = m})
                      = IF TextureSrc(s.tiles[m]) = "" THEN 0 ELSE 1
              /\ s.loadedCount = Len(SelectSeq(o, IsDraw))
              /\ s.failedCount = Len(SelectSeq(o, IsFailure))
              /\ LoopOver(s) => Len(o) = Len(s.tiles)

\* The loop is over, its first tile failed and its second tile was drawn.
C6_Witness ==
    \E p \in Procs :
        LET o == Outcomes(inv[p]) IN
        /\ LoopOver(inv[p]) /\ Len(o) >= 2
        /\ IsFailure(o[1]) /\ IsDraw(o[2])

(* C8, as the specification states it: when the canvas width or height
   exceeds 16384 the export fails with the size error and no canvas object
   has been created or sized, no image load started, nothing drawn, no file
   saved. *)
C8_NoCanvasWhenTooLarge ==
    \A p \in Procs :
        LET s == inv[p] IN
        Computed(s) /\ TooLarge(s.tiles) =>
            /\ Ended(s, "failed")
            /\ ~s.canvas.created
            /\ s.events = <<>> /\ s.saved = <<>>

(* C8, amended: when the canvas width or height exceeds 16384 the export
   fails with the size error; the canvas element created before the bounds
   were computed is never given the computed size, no image load is started,
   nothing is drawn and no file is saved.  A width and height of at most
   16384, exactly 16384 included, are accepted: the canvas gets that size. *)
C8_SizeCeiling ==
    \A p \in Procs :
        LET s == inv[p]
            w == RoundUp(ExtentX(s.tiles))
            h == RoundUp(ExtentY(s.tiles))
        IN  Computed(s) =>
              IF TooLarge(s.tiles)
              THEN /\ Ended(s, "failed")
                   /\ s.notes[Len(s.notes)] =
                         Note("error", "Canvas size too large ({n1}x{n2}).", w, h, "")
                   /\ s.canvas = [created |-> TRUE, width |-> 300, height |-> 150]
                   /\ s.events = <<>> /\ s.pending = {} /\ s.saved = <<>>
              ELSE /\ NotesOf(s, "Canvas size too large ({n1}x{n2}).") = {}
                   /\ s.canvas = [created |-> TRUE, width |-> w, height |-> h]

\* An export has failed on a canvas a fraction higher than 16384.
C8_Witness ==
    \E p \in Procs :
        /\ Computed(inv[p]) /\ TooLarge(inv[p].tiles)
        /\ inv[p].canvasHeight = 16385

\* An export goes on with a canvas exactly 16384 wide.
C8_WitnessExact ==
    \E p \in Procs :
        /\ Computed(inv[p]) /\ inv[p].canvas.width = 16384 /\ inv[p].pc = "load"

\* The export s has read the tiles of a scene and was not refused a 2d context.
TilesRead(s) ==
    /\ IsTileExport(s) /\ s.scene # NoScene
    /\ NotesOf(s, "Unable to create canvas context for tile export.") = {}

\* The tiles span no width or no height.
Collapsed(tiles) ==
    tiles # <<>> /\ (RightOf(tiles) <= LeftOf(tiles) \/ BottomOf(tiles) <= TopOf(tiles))

(* C9, as the specification states it: for an empty tile set and for a tile
   set of no width or no height, the export has a canvas of at least 1x1. *)
C9_CanvasAtLeastOne ==
    \A p \in Procs :
        LET s == inv[p] IN
        TilesRead(s) /\ (s.tiles = <<>> \/ Collapsed(s.tiles)) =>
            /\ s.canvas.created
            /\ s.canvasWidth >= 1 /\ s.canvasHeight >= 1

(* C9, amended: for a tile set that is not empty and spans no width or no
   height, the canvas width and height computed are at least 1, and exactly
   1 in a direction the tiles do not span; for an empty tile set the export
   ends with the warning that the scene has no tiles, before any canvas is
   created or any bounds are computed. *)
C9_Degenerate ==
    \A p \in Procs :
        LET s == inv[p] IN
        TilesRead(s) =>
            /\ Collapsed(s.tiles) =>
                  /\ s.canvas.created
                  /\ s.canvasWidth >= 1 /\ s.canvasHeight >= 1
                  /\ RightOf(s.tiles) <= LeftOf(s.tiles) => s.canvasWidth = 1
                  /\ BottomOf(s.tiles) <= TopOf(s.tiles) => s.canvasHeight = 1
            /\ s.tiles = <<>> =>
                  /\ Ended(s, "empty")
                  /\ s.notes = <<Note("warn", "The current scene has no tiles to export.",
                                      -1, -1, "")>>
                  /\ ~s.canvas.created
                  /\ s.canvasWidth = 0 /\ s.canvasHeight = 0

\* The export of a single tile of no width and no height has a 1x1 canvas.
C9_Witness ==
    \E p \in Procs :
        /\ TilesRead(inv[p]) /\ inv[p].tiles = <<PointTile>>
        /\ inv[p].canvas = [created |-> TRUE, width |-> 1, height |-> 1]

\* The export of a scene without tiles has ended.
C9_WitnessEmpty ==
    \E p \in Procs : TilesRead(inv[p]) /\ inv[p].tiles = <<>>

(* C10: bounds correctness.  For a tile set that is not empty, the first
   pass yields minX = min x, minY = min y, maxX = max (x + width) and
   maxY = max (y + height); the export keeps minX and minY, and maxX and maxY
   where the tiles span a width and a height; every tile drawn is drawn at
   (x - minX, y - minY) with its width and height.  The two tiles of the
   example give (0, 0, 15, 25) and are drawn at (10, 20) and (0, 0). *)
C10_Bounds ==
    \A p \in Procs :
        LET s == inv[p]
            ts == s.tiles
            b == FirstPass(ts, Len(ts))
        IN  Computed(s) =>
              /\ b = [minX |-> LeftOf(ts), minY |-> TopOf(ts),
                      maxX |-> RightOf(ts), maxY |-> BottomOf(ts)]
              /\ s.minX = LeftOf(ts) /\ s.minY = TopOf(ts)
              /\ RightOf(ts) > LeftOf(ts) => s.maxX = RightOf(ts)
              /\ BottomOf(ts) > TopOf(ts) => s.maxY = BottomOf(ts)
              /\ \A q \in 1..Len(s.events) :
                    IsDraw(s.events[q]) =>
                       LET t == ts[s.events[q].tile] IN
                       s.events[q].at = <<GeomX(t) - LeftOf(ts), GeomY(t) - TopOf(ts),
                                          GeomW(t), GeomH(t)>>
              /\ ts = <<ExampleTileA, ExampleTileB>> =>
                    /\ <<s.minX, s.minY, s.maxX, s.maxY>> =
                          <<0, 0, Units(15), Units(25)>>
                    /\ \A q \in 1..Len(s.events) :
                          IsDraw(s.events[q]) =>
                             <<s.events[q].at[1], s.events[q].at[2]>> =
                                IF s.events[q].tile = 1 THEN <<Units(10), Units(20)>>
                                                        ELSE <<0, 0>>

\* The two tiles of the example have both been drawn.
C10_Witness ==
    \E p \in Procs :
        /\ Computed(inv[p]) /\ inv[p].tiles = <<ExampleTileA, ExampleTileB>>
        /\ Len(SelectSeq(inv[p].events, IsDraw)) = 2

\* The four image references of a tile record, in the order of resolution,
\* and the first of them that is set ("" if none is).
Candidates(t) ==
    <<t.texture,
      IF t.doc.present THEN t.doc.texture ELSE "",
      t.img,
      IF t.doc.present THEN t.doc.img ELSE "">>
FirstSet(c) ==
    IF \A i \in 1..Len(c) : c[i] = "" THEN ""
    ELSE c[SetMin({i \in 1..Len(c) : c[i] # ""})]

(* C11: image-source resolution.  Every image load a tile export starts is
   that of the first non-empty of texture.src, document.texture.src, img and
   document.img of its tile; a tile with a direct texture loads the direct
   texture; a settled tile with one of the four has had exactly that load
   started; a settled tile with none of the four is counted as failed with
   no load started for it. *)
C11_SourceResolution ==
    \A p \in Procs :
        LET s == inv[p]
            e == s.events
            o == Outcomes(s)
        IN  IsTileExport(s) =>
              /\ \A q \in 1..Len(e) :
                    IsLoad(e[q]) =>
                       LET t == s.tiles[e[q].tile] IN
                       /\ e[q].at = <<FirstSet(Candidates(t))>>
                       /\ e[q].at[1] # ""
                       /\ t.texture # "" => e[q].at[1] = t.texture
              /\ \A m \in 1..Len(o) :
                    LET t == s.tiles[o[m].tile]
                        loads == {q \in 1..Len(e) : IsLoad(e[q]) /\ e[q].tile = o[m].tile}
                    IN  IF FirstSet(Candidates(t)) = ""
                        THEN o[m].kind = "nosrc" /\ loads = {}
                        ELSE o[m].kind # "nosrc" /\ Cardinality(loads) = 1
              /\ s.failedCount >= Cardinality({m \in 1..Len(o) : o[m].kind = "nosrc"})

\* The tile with two textures was loaded from its direct one, and the tile
\* with no source was counted as failed.
C11_Witness ==
    \E p \in Procs :
        LET s == inv[p] IN
        /\ IsTileExport(s) /\ s.tiles = <<BothTexturesTile, NoSourceTile>>
        /\ Len(Outcomes(s)) = 2 /\ s.failedCount >= 1
        /\ s.events[1] = [kind |-> "load", tile |-> 1, at |-> <<"g.png">>]

\* The import s was given a text that is not JSON or not a JSON array.
BadFormat(s) ==
    /\ IsImport(s) /\ s.text # NoText
    /\ (s.text.kind # "json" \/ s.text.type # "array")

ErrorNotes(s) == SelectSeq(s.notes, LAMBDA n : n.level = "error")

(* C12: format errors.  An import whose text is not valid JSON, or is JSON
   but not an array, has ended as failed with one error notification (the
   parser's message, or the format message), has requested no padding
   confirmation and has issued no createEmbeddedDocuments call; no step of
   an import up to and including that rejection changes a scene. *)
C12_FormatError ==
    [][\A p \in Procs :
          LET s == inv'[p] IN
          /\ BadFormat(s) =>
                /\ Ended(s, "failed")
                /\ Len(ErrorNotes(s)) = 1
                /\ ErrorNotes(s)[1] = s.notes[Len(s.notes)]
                /\ IF s.text.kind # "json"
                   THEN ErrorNotes(s)[1] =
                           Note("error", "Error processing walls:{err}", -1, -1, ParseError)
                   ELSE ErrorNotes(s)[1] =
                           Note("error", "Invalid wall data format. Expected an array of walls.",
                                -1, -1, "")
                /\ s.confirms = <<>>
                /\ s.calls = <<>>
          /\ IsImport(s) /\ (s.text = NoText \/ BadFormat(s)) /\ s # inv[p] =>
                scenes' = scenes
     ]_vars

\* An import was given a JSON object, and has ended.
C12_Witness ==
    \E p \in Procs : BadFormat(inv[p]) /\ inv[p].text = ObjectText /\ inv[p].pc = "done"

\* An import was given text that is not JSON, and has ended.
C12_WitnessInvalid ==
    \E p \in Procs : BadFormat(inv[p]) /\ inv[p].text = InvalidText /\ inv[p].pc = "done"

\* The tile loop of s has settled its last tile; how many tiles failed in it.
LoopEnded(s) ==
    /\ Computed(s) /\ ~TooLarge(s.tiles)
    /\ Len(Outcomes(s)) = Len(s.tiles)
FailedTiles(s) == Len(SelectSeq(Outcomes(s), IsFailure))

\* The notifications of s about failed tiles, about the blob, and of success.
FailedTilesNotes(s) ==
    SelectSeq(s.notes, LAMBDA n : n.msg = "{n1} tiles could not be loaded or drawn.")
BlobFailed(s) == NotesOf(s, "Failed to create image blob.") # {}
SuccessNote(s) ==
    Note("info", "Scene tiles exported successfully ({n1} tiles).",
         Len(SelectSeq(Outcomes(s), IsDraw)), -1, "")

(* C13, as the specification states it: whenever the tile loop ends with
   failed > 0 and the canvas is encoded to a blob, the export, once ended,
   has emitted the warning with the failed count, has saved the image and
   has reported success; with failed = 0 there is no such warning. *)
C13_WarningAndSuccess ==
    \A p \in Procs :
        LET s == inv[p] IN
        LoopEnded(s) /\ s.pc = "done" /\ ~BlobFailed(s) =>
            /\ FailedTiles(s) > 0 =>
                  /\ FailedTilesNotes(s) =
                        <<Note("warn", "{n1} tiles could not be loaded or drawn.",
                               FailedTiles(s), -1, "")>>
                  /\ Len(s.saved) = 1
                  /\ s.notes[Len(s.notes)] = SuccessNote(s)
            /\ FailedTiles(s) = 0 => FailedTilesNotes(s) = <<>>

(* C13, amended: whenever the tile loop ends with failed > 0 the export has
   emitted one warning carrying the failed count, and with failed = 0 none;
   the warning decides nothing: the export goes on to encode the canvas, and
   it saves the image and reports success with the count of drawn tiles
   exactly when the blob is not null and the file-saver module loads and
   saves; when the blob is null, or file-saver fails to load or to save,
   the export ends with an error notification after the warning and saves
   nothing. *)
C13_PartialFailureWarns ==
    \A p \in Procs :
        LET s == inv[p]
            last == s.notes[Len(s.notes)]
        IN  LoopEnded(s) =>
              /\ FailedTilesNotes(s) =
                    IF FailedTiles(s) > 0
                    THEN <<Note("warn", "{n1} tiles could not be loaded or drawn.",
                                FailedTiles(s), -1, "")>>
                    ELSE <<>>
              /\ s.pc \in {"encode", "saver", "done"}
              /\ s.pc \in {"encode", "saver"} =>
                    /\ s.saved = <<>>
                    /\ FailedTiles(s) > 0 => last = FailedTilesNotes(s)[1]
              /\ s.pc = "done" =>
                    \/ /\ s.outcome = "complete"
                       /\ Len(s.saved) = 1
                       /\ last = SuccessNote(s)
                    \/ /\ s.outcome = "failed"
                       /\ s.saved = <<>>
                       /\ last.level = "error"
                       /\ last.msg \in {"Failed to create image blob.",
                                        "Failed to export image: {err}"}

\* An export with a failed and a drawn tile has warned, saved and reported success.
C13_Witness ==
    \E p \in Procs :
        LET s == inv[p] IN
        /\ LoopEnded(s) /\ Ended(s, "complete")
        /\ FailedTiles(s) = 1 /\ Len(s.tiles) = 2 /\ Len(s.saved) = 1

\* The notifications of s that tell the user of a failure.
FailureNotes(s) == SelectSeq(s.notes, LAMBDA n : n.level \in {"error", "warn"})

(* C14: one notification per failure.  Every wall import or wall export that
   has ended in a failure (format error, no active scene, padding
   confirmation declined, clipboard denied, file read failure, host creation
   failure) has emitted exactly one notification of the failure, and no
   exception thrown inside the operation is left uncaught. *)
C14_SingleNotification ==
    \A p \in Procs :
        LET s == inv[p] IN
        /\ s.pc # "threw"
        /\ (IsImport(s) \/ IsWallExport(s)) /\ s.pc = "done"
             /\ s.outcome \in {"failed", "aborted"} =>
                Len(FailureNotes(s)) = 1

\* The bulk-create calls and the image loads of invocation p that have not
\* returned yet; the invocations that have started and not ended.
PendingCalls(p) == {k \in 1..Len(inv[p].calls) : inv[p].calls[k].result = "pending"}
PendingLoads(p) == inv[p].pending
InFlight == {p \in Procs : inv[p].pc \notin Settled}

(* C15, as the specification states it: whatever the user triggers and
   when, at most one bulk-create call and at most one image load is
   outstanding at any time, and at most one invocation is in flight, so
   that the steps of two invocations never interleave. *)
C15_NoParallelOperations ==
    /\ Cardinality({<<p, k>> \in Procs \X (1..(MaxBatches + 1)) : k \in PendingCalls(p)}) <= 1
    /\ Cardinality({<<p, k>> \in Procs \X (1..MaxTiles) : k \in PendingLoads(p)}) <= 1
    /\ Cardinality(InFlight) <= 1

(* C15, amended: within one invocation at most one bulk-create call and at
   most one image load is outstanding at any time: an outstanding call is
   the last one the invocation issued, it is outstanding exactly while the
   invocation waits for it, and all calls before it have succeeded.  The
   module does not keep the user from triggering an operation while another
   is suspended; each invocation keeps this order whatever the others do. *)
C15_SequentialWithinInvocation ==
    \A p \in Procs :
        LET s == inv[p] IN
        /\ Cardinality(PendingCalls(p)) <= 1
        /\ Cardinality(PendingLoads(p)) <= 1
        /\ PendingCalls(p) # {} <=> s.pc = "create"
        /\ PendingLoads(p) # {} <=> s.pc = "load"
        /\ \A k \in PendingCalls(p) :
              /\ k = Len(s.calls)
              /\ \A j \in 1..(k - 1) : s.calls[j].result = "resolved"
        /\ \A k \in PendingLoads(p) :
              /\ s.events[Len(s.events)] =
                    [kind |-> "load", tile |-> k, at |-> <<TextureSrc(s.tiles[k])>>]
              /\ Len(Outcomes(s)) = k - 1

\* Two invocations each wait for a bulk-create call, one of them for its
\* second after the other has issued its first.
C15_Witness ==
    \E p, q \in Procs :
        /\ p # q
        /\ PendingCalls(p) = {2}
        /\ PendingCalls(q) = {1}

\* An import waits for a bulk-create call while a tile export waits for an
\* image load.
C15_WitnessMixed ==
    \E p, q \in Procs : PendingCalls(p) # {} /\ PendingLoads(q) # {}

\* The effects of a wall import or export: a bulk-create call, the wall
\* collection read and serialized, a clipboard write, a file save.
HasEffect(s) ==
    s.calls # <<>> \/ s.wallData # <<>> \/ s.json # NoText \/ s.clip # <<>> \/ s.saved # <<>>
PaddingOf(s) == scenes[s.scene].padding
DirectionOf(s) == IF IsImport(s) THEN "import" ELSE "export"

\* The padding dialog of s, as far as the property looks at it, in a state.
C16_Requested ==
    \A p \in Procs :
        LET s == inv[p] IN
        IsImport(s) \/ IsWallExport(s) =>
            /\ Len(s.confirms) <= 1
            /\ s.confirms # <<>> => s.scene # NoScene /\ s.confirms[1].operation = DirectionOf(s)
            /\ s.scene # NoScene => (s.confirms # <<>> <=> PaddingOf(s) # 0)
            /\ HasEffect(s) => s.scene # NoScene
            /\ HasEffect(s) /\ PaddingOf(s) # 0 => s.confirms[1].answer = "continue"

\* The step in which an invocation has its first effect.
C16_FirstEffect ==
    \A p \in Procs :
        LET s == inv[p]
            t == inv'[p]
        IN  (IsImport(t) \/ IsWallExport(t)) /\ HasEffect(t)
              /\ (~HasEffect(s) \/ (s.pc \in Settled /\ t # s)) =>
                IF PaddingOf(t) = 0
                THEN t.confirms = <<>>
                ELSE /\ s.pc = "confirm"
                     /\ s.confirms = <<[operation |-> DirectionOf(t), answer |-> "pending"]>>
                     /\ t.confirms = <<[operation |-> DirectionOf(t), answer |-> "continue"]>>

(* C16: the padding confirmation.  A wall import or export that has read
   its scene has requested the confirmation if and only if that scene's
   padding is not 0, and at most once; an operation has an effect (a
   bulk-create call, the wall collection read, a clipboard write, a file
   save) on a scene of non-zero padding only in or after the step in which
   the confirmation, requested in an earlier step, is answered with
   Continue; with padding 0 it has its effects without any confirmation. *)
C16_ConfirmationBeforeEffects ==
    []C16_Requested /\ [][C16_FirstEffect]_vars

\* An export to a file from the scene of padding 5 was confirmed and saved.
C16_Witness ==
    \E p \in Procs :
        LET s == inv[p] IN
        /\ s.op = "exportFile" /\ Len(s.saved) = 1
        /\ PaddingOf(s) # 0
        /\ s.confirms = <<[operation |-> "export", answer |-> "continue"]>>

\* An import into the scene of padding 0 has issued a call with no confirmation.
C16_WitnessZero ==
    \E p \in Procs :
        LET s == inv[p] IN
        IsImport(s) /\ s.calls # <<>> /\ PaddingOf(s) = 0 /\ s.confirms = <<>>

\* The state of the operation s in the state machine of the specification.
\* PreconditionCheck: the operation waits for its input or for the padding
\* dialog (for ever, if the dialog is closed without an answer);
\* Transforming: it waits for a bulk-create call or a clipboard write;
\* an operation that ended without success is Failed if it had begun to
\* transform (the records prepared, the walls serialized), Aborted if not.
Phase(s) ==
    CASE s.pc = "idle" -> "Idle"
      [] s.pc \in {"clipRead", "filePick", "confirm", "stuck"} -> "PreconditionCheck"
      [] s.pc \in {"create", "clipWrite"} -> "Transforming"
      [] s.pc = "done" /\ s.outcome = "complete" -> "Complete"
      [] s.pc = "done" /\ s.outcome # "complete" ->
           IF NotesOf(s, "Creating {n1} walls...") # {} \/ s.json # NoText
           THEN "Failed" ELSE "Aborted"
      [] OTHER -> "Unknown"

\* The transitions of the state machine, a step of the model being the run
\* of the operation from one suspension to the next.
Transitions ==
    {<<"Idle", b>> : b \in {"PreconditionCheck", "Aborted", "Transforming", "Complete", "Failed"}}
    \cup {<<"PreconditionCheck", b>> : b \in {"PreconditionCheck", "Aborted", "Transforming",
                                              "Complete", "Failed"}}
    \cup {<<"Transforming", b>> : b \in {"Transforming", "Complete", "Failed"}}

C17_Step ==
    \A p \in Procs :
        LET s == inv[p]
            t == inv'[p]
        IN  (IsImport(t) \/ IsWallExport(t)) /\ t # s =>
              /\ <<Phase(s), Phase(t)>> \in Transitions
              /\ Phase(s) = "Idle" <=> s = Fresh

C17_State ==
    \A p \in Procs :
        LET s == inv[p] IN
        IsImport(s) \/ IsWallExport(s) =>
            /\ Phase(s) \in {"PreconditionCheck", "Aborted", "Transforming", "Complete", "Failed"}
            /\ Phase(s) = "Transforming" =>
                  /\ \A k \in 1..Len(s.calls) : s.calls[k].result # "rejected"
                  /\ s.scene # NoScene
                  /\ PaddingOf(s) # 0 => s.confirms[1].answer = "continue"
            /\ Phase(s) = "Aborted" => ~HasEffect(s)

(* C17: the state machine of an operation.  Every step of a wall import or
   export is a transition of Idle -> PreconditionCheck -> {Aborted |
   Transforming} -> {Complete | Failed}, or several of them in a row where
   the operation does not suspend in between; no step changes an operation
   that is Aborted, Complete or Failed; an operation that waits for a
   bulk-create call or a clipboard write has no failed call behind it (there
   is no retry) and has passed the scene and padding checks; an Aborted
   operation has had no effect. *)
C17_StateMachine ==
    []C17_State /\ [][C17_Step]_vars

\* An import has failed at its second bulk-create call while another
\* invocation is still in flight.
C17_Witness ==
    \E p, q \in Procs :
        /\ IsImport(inv[p]) /\ Phase(inv[p]) = "Failed" /\ Len(inv[p].calls) = 2
        /\ inv[q].pc \notin Settled

\* In a state: the calls of an import are the slices of its records in
\* order, and all but the last have succeeded.
C18_Calls ==
    \A p \in Procs :
        LET s == inv[p] IN
        IsImport(s) =>
            /\ \A j \in 1..Len(s.calls) :
                  /\ s.calls[j].batch = SubSeq(s.wallData, SliceFirst(j),
                                               SliceLast(j, Len(s.wallData)))
                  /\ j < Len(s.calls) => s.calls[j].result = "resolved"
            /\ s.pc = "create" <=>
                  (s.calls # <<>> /\ s.calls[Len(s.calls)].result = "pending")

\* In a step: a further call is issued in the step in which the call before
\* it, outstanding until then, succeeds, and the host has then created the
\* records of that call.
C18_Issue ==
    \A p \in Procs :
        LET s == inv[p]
            t == inv'[p]
            n == Len(s.calls)
        IN  IsImport(t) /\ n >= 1 /\ Len(t.calls) > n =>
              /\ Len(t.calls) = n + 1
              /\ s.pc = "create" /\ s.calls[n].result = "pending"
              /\ t.calls[n].result = "resolved"
              /\ SubSeq(t.calls, 1, n - 1) = SubSeq(s.calls, 1, n - 1)
              /\ LET docs == scenes'[s.calls[n].scene].walls
                     b == s.calls[n].batch
                 IN  /\ Len(docs) = Len(scenes[s.calls[n].scene].walls) + Len(b)
                     /\ \A m \in 1..Len(b) : SameButId(docs[Len(docs) - Len(b) + m], b[m])

(* C18: one call at a time.  The bulk-create calls of an import are the
   batches of its records in order; the call for batch j+1 is issued only in
   the step in which the call for batch j, outstanding until then, has
   succeeded and its records are in the scene, in order; so no two calls of
   an import overlap. *)
C18_OneCallAtATime ==
    []C18_Calls /\ [][C18_Issue]_vars

\* An import waits for its third call, the first two having succeeded.
C18_Witness ==
    \E p \in Procs :
        LET s == inv[p] IN
        /\ IsImport(s) /\ Len(s.calls) = 3 /\ s.pc = "create"
        /\ s.calls[1].result = "resolved" /\ s.calls[2].result = "resolved"

\* The records an import has submitted so far, in the order of submission.
RECURSIVE Submitted(_, _)
Submitted(calls, k) ==
    IF k = 0 THEN <<>> ELSE Submitted(calls, k - 1) \o calls[k].batch

(* C19: identity stripping.  No record of any bulk-create call of an import
   has an _id field; the records submitted so far are, in number and order,
   the first records of the payload, each with every field of the payload
   record but _id and with the same values; when the import is complete they
   are all the records of the payload. *)
C19_NoIdentitySubmitted ==
    \A p \in Procs :
        LET s == inv[p]
            sub == Submitted(s.calls, Len(s.calls))
        IN  IsImport(s) =>
              /\ Len(sub) <= Len(s.walls)
              /\ \A m \in 1..Len(sub) :
                    /\ "_id" \notin DOMAIN sub[m]
                    /\ DOMAIN sub[m] = DOMAIN s.walls[m] \ {"_id"}
                    /\ \A f \in DOMAIN sub[m] : sub[m][f] = s.walls[m][f]
              /\ Ended(s, "complete") => Len(sub) = Len(s.walls)
              /\ s.calls # <<>> => s.walls = s.text.items

\* An import of 201 records, the odd ones with an _id, is complete.
C19_Witness ==
    \E p \in Procs :
        LET s == inv[p] IN
        /\ IsImport(s) /\ Ended(s, "complete") /\ Len(s.walls) = 201
        /\ "_id" \in DOMAIN s.walls[201] /\ "_id" \notin DOMAIN s.walls[200]

(* C20: termination.  With collaborators that answer and padding dialogs
   that are answered or closed, every operation that has started eventually
   ends (completed, failed or aborted). *)
C20_Terminates ==
    \A p \in Procs : (inv[p].pc \notin {"idle", "done"}) ~> (inv[p].pc = "done")

---------------------------------------------------------------------------
(* C21: each tile is counted exactly once.  At every point of the tile loop
   loadedCount + failedCount is the number of tiles fully processed so far
   (the tiles before the one the loop is at, which is the one whose image
   load is awaited, if any is); when the loop is over the sum is the number
   of tiles of the collection; and loadedCount is the number of drawImage
   calls that completed. *)
C21_CountedOnce ==
    \A p \in Procs :
        LET s == inv[p] IN
        IsTileExport(s) /\ s.idx >= 1 =>
          /\ s.loadedCount + s.failedCount = s.idx - 1
          /\ s.loadedCount + s.failedCount = Len(Outcomes(s))
          /\ s.pending \subseteq {s.idx}
          /\ s.pc = "load" => s.pending = {s.idx} /\ s.idx <= Len(s.tiles)
          /\ s.loadedCount = Len(SelectSeq(s.events, IsDraw))
          /\ LoopOver(s) => s.loadedCount + s.failedCount = Len(s.tiles)

\* A loop over two tiles is over: the drawImage of one tile threw and the
\* other tile was drawn.
C21_Witness ==
    \E p \in Procs :
        LET s == inv[p] IN
        /\ LoopOver(s) /\ Len(s.tiles) = 2
        /\ s.loadedCount = 1 /\ s.failedCount = 1
        /\ \E q \in 1..Len(s.events) : s.events[q].kind = "drawerr"

---------------------------------------------------------------------------
(* C22: a null blob is an encode error.  When canvas.toBlob gives no data
   the export ends as failed; its last notification is the error "Failed to
   create image blob." and it is its only error notification; no file is
   handed to file-saver and no success notification is emitted. *)
C22_NullBlob ==
    \A p \in Procs :
        LET s == inv[p] IN
        IsTileExport(s) /\ s.blob = "null" =>
          /\ Ended(s, "failed")
          /\ s.notes[Len(s.notes)] =
                Note("error", "Failed to create image blob.", -1, -1, "")
          /\ Len(ErrorNotes(s)) = 1
          /\ s.saved = <<>>
          /\ NotesOf(s, "Scene tiles exported successfully ({n1} tiles).") = {}

\* The canvas of an export whose tiles were all drawn has given a null blob.
C22_Witness ==
    \E p \in Procs :
        LET s == inv[p] IN
        /\ IsTileExport(s) /\ s.blob = "null"
        /\ s.loadedCount = Len(s.tiles) /\ s.failedCount = 0

---------------------------------------------------------------------------
(* C23: no filtering.  The array a wall export has serialized has exactly as
   many records as the wall collection of the scene the export read as
   current, in the order of the collection, each record being the plain
   fields of its wall, _id included; a wall export that ended complete has
   serialized such an array and has handed it, and nothing else, to the
   clipboard or to the file. *)
C23_ExportsEveryWall ==
    \A p \in Procs :
        LET s == inv[p]
            docs == scenes[s.scene].walls
        IN  IsWallExport(s) =>
              /\ s.json # NoText =>
                    /\ s.json.kind = "json" /\ s.json.type = "array"
                    /\ Len(s.json.items) = Len(docs)
                    /\ \A k \in 1..Len(docs) :
                          /\ DOMAIN s.json.items[k] = DOMAIN docs[k]
                          /\ \A f \in DOMAIN docs[k] : s.json.items[k][f] = docs[k][f]
                          /\ "_id" \in DOMAIN s.json.items[k]
              /\ Ended(s, "complete") =>
                    /\ s.json # NoText
                    /\ s.op = "exportClipboard" => s.clip = <<s.json>> /\ s.saved = <<>>
                    /\ s.op = "exportFile" =>
                          /\ s.clip = <<>> /\ Len(s.saved) = 1
                          /\ s.saved[1].data = s.json

\* A scene of one wall has taken an import of 101 records, doors among them,
\* and was exported to the clipboard.
C23_Witness ==
    \E p \in Procs :
        LET s == inv[p] IN
        /\ s.op = "exportClipboard" /\ Ended(s, "complete")
        /\ Len(s.json.items) = 102
        /\ \E k \in 1..102 : s.json.items[k].door # 0

---------------------------------------------------------------------------
\* The progress notifications of s, and its bulk-create calls that succeeded.
ProgressNotes(s) ==
    SelectSeq(s.notes, LAMBDA n : n.msg = "Created {n1} of {n2} walls...")

ResolvedCalls(s) == {j \in 1..Len(s.calls) : s.calls[j].result = "resolved"}

(* C25: stable progress counts.  The progress notifications of an import are
   one for each bulk-create call that has succeeded while another batch
   remained, in that order: the j-th reports 100*j created walls of N, so the
   counts strictly increase, and none is emitted after the last batch; an
   import whose calls all succeeded ends with the success notification
   reporting exactly N, the size of the payload. *)
C25_StableProgress ==
    \A p \in Procs :
        LET s == inv[p]
            n == Len(s.walls)
            prog == ProgressNotes(s)
        IN  IsImport(s) =>
              /\ Len(prog) = Cardinality({j \in ResolvedCalls(s) : 100 * j < n})
              /\ \A j \in 1..Len(prog) :
                    /\ prog[j] = Note("info", "Created {n1} of {n2} walls...", 100 * j, n, "")
                    /\ 100 * j < n
                    /\ j > 1 => prog[j].n1 > prog[j - 1].n1
              /\ Ended(s, "complete") =>
                    /\ Len(prog) = IF n = 0 THEN 0 ELSE CeilDiv100(n) - 1
                    /\ s.notes[Len(s.notes)] =
                          Note("info", "Successfully created {n1} walls!", n, -1, "")

\* An import of 200 records has ended complete: progress was reported once,
\* after the first batch, and not after the second.
C25_Witness ==
    \E p \in Procs :
        LET s == inv[p] IN
        /\ IsImport(s) /\ Ended(s, "complete")
        /\ Len(s.walls) = 200 /\ Len(ProgressNotes(s)) = 1

\* An import of 201 records has reported progress twice.
C25_WitnessTwice ==
    \E p \in Procs : IsImport(inv[p]) /\ Len(ProgressNotes(inv[p])) = 2

---------------------------------------------------------------------------
\* The export s has passed the size check: its canvas has the computed size.
Sized(s) == Computed(s) /\ NotesOf(s, "Loading tile images...") # {}

\* The rectangle <<x, y, width, height>>, in 1/Denom of a pixel, lies inside
\* a canvas of the given width and height in pixels.
InsideCanvas(rect, canvas) ==
    /\ 0 <= rect[1] /\ 0 <= rect[2]
    /\ rect[1] + rect[3] <= Units(canvas.width)
    /\ rect[2] + rect[4] <= Units(canvas.height)

(* C26: every draw rectangle lies inside the canvas.  For an export that has
   passed the size check, the rectangle at which each tile of the collection
   is drawn, (x - minX, y - minY, width, height), has 0 <= x - minX,
   0 <= y - minY, (x - minX) + width <= canvas width and (y - minY) + height
   <= canvas height; every drawImage call made used that rectangle, with the
   x, y, width and height the bounds were computed from. *)
C26_DrawInsideCanvas ==
    \A p \in Procs :
        LET s == inv[p] IN
        Sized(s) =>
          /\ s.canvas.created
          /\ s.canvas.width = s.canvasWidth /\ s.canvas.height = s.canvasHeight
          /\ \A k \in 1..Len(s.tiles) : InsideCanvas(DrawRect(s, s.tiles[k]), s.canvas)
          /\ \A q \in 1..Len(s.events) :
                IsDraw(s.events[q]) =>
                   LET tile == s.tiles[s.events[q].tile] IN
                   /\ s.events[q].at = DrawRect(s, tile)
                   /\ InsideCanvas(s.events[q].at, s.canvas)
                   /\ s.events[q].at[1] + s.minX + s.events[q].at[3] <= s.maxX
                   /\ s.events[q].at[2] + s.minY + s.events[q].at[4] <= s.maxY

\* A tile of no extent at a negative, fractional position and the first tile
\* of the example have both been drawn.
C26_Witness ==
    \E p \in Procs :
        LET s == inv[p] IN
        /\ Sized(s) /\ s.tiles = <<PointTile, ExampleTileA>>
        /\ Len(SelectSeq(s.events, IsDraw)) = 2

---------------------------------------------------------------------------
(* Vocabulary of the scene contexts *)

IsCopyUrl(s) == s.op = "copySceneImageUrl"

\* The step from s to t starts an operation: s awaits nothing and t, another
\* record, is the operation after its first run.
Starts(s, t) == s.pc \in Settled /\ t # s /\ t.op # "none" /\ t.pc # "idle"

\* The step from s to t is the one in which the import s is given its text.
Reads(s, t) == IsImport(s) /\ s.pc \in {"clipRead", "filePick"} /\ t.text # NoText

\* The operation t was refused for lack of a scene: what it has emitted is
\* the one notification its code has for that, and it has ended.
RefusedNoScene(t) ==
    /\ t.pc = "done" /\ t.scene = NoScene
    /\ t.notes =
         CASE IsImport(t) ->
                SubSeq(t.notes, 1, Len(t.notes) - 1)
                   \o <<Note("error", "No active scene", -1, -1, "")>>
           [] t.op = "exportClipboard" ->
                <<Note("error", "Failed to copy walls to clipboard.", -1, -1, "")>>
           [] t.op \in {"exportFile", "exportTiles"} ->
                <<Note("error", "No active scene found.", -1, -1, "")>>
           [] IsCopyUrl(t) ->
                <<Note("warn", "No scene is currently viewed.", -1, -1, "")>>
    /\ t.calls = <<>> /\ t.clip = <<>> /\ t.saved = <<>> /\ t.confirms = <<>>
    /\ t.events = <<>>

(* C24: the current scene and the viewed scene are distinct contexts.
   copySceneImageUrl takes its scene from the viewed scene only: it is
   refused for lack of a scene exactly when no scene is viewed, whatever the
   current scene is, and otherwise works on the viewed scene: it copies the
   URL of that scene's background, or warns that it has none.  The wall
   exports, the tile export and an import that has read an array of walls
   take their scene from the current scene only: they are refused for lack
   of a scene exactly when there is no current scene, whatever scene is
   viewed, issuing no create call, and otherwise work on the current scene. *)
C24_Step ==
    \A p \in Procs :
        LET s == inv[p]
            t == inv'[p]
        IN  /\ Starts(s, t) /\ IsCopyUrl(t) =>
                /\ RefusedNoScene(t) <=> viewed = NoScene
                /\ t.scene = viewed
                /\ viewed # NoScene =>
                      IF scenes[viewed].background = NoImage
                      THEN /\ Ended(t, "empty") /\ t.clip = <<>>
                      ELSE /\ t.pc = "urlWrite"
                           /\ t.clip = <<UrlText(ResolveUrl(scenes[viewed].background,
                                                            BaseUrl))>>
            /\ Starts(s, t) /\ (IsWallExport(t) \/ IsTileExport(t)) =>
                /\ RefusedNoScene(t) <=> current = NoScene
                /\ t.scene = current
            /\ Reads(s, t) /\ t.text.type = "array" =>
                /\ RefusedNoScene(t) <=> current = NoScene
                /\ t.scene = current

C24_ScenesDistinct == [][C24_Step]_vars

\* With a scene viewed and no current scene, copySceneImageUrl has copied
\* the URL of the viewed scene's background.
C24_Witness ==
    \E p \in Procs :
        /\ IsCopyUrl(inv[p]) /\ Ended(inv[p], "complete")
        /\ current = NoScene /\ viewed = inv[p].scene

\* With a scene viewed and no current scene, an import was refused.
C24_WitnessImport ==
    \E p \in Procs :
        /\ IsImport(inv[p]) /\ RefusedNoScene(inv[p])
        /\ inv[p].text.type = "array"
        /\ current = NoScene /\ viewed # NoScene

\* With a current scene and no scene viewed, copySceneImageUrl was refused.
C24_WitnessReverse ==
    \E p \in Procs :
        /\ IsCopyUrl(inv[p]) /\ RefusedNoScene(inv[p])
        /\ current # NoScene /\ viewed = NoScene

\* With a current scene and no scene viewed, an import into the current
\* scene has ended complete.
C24_WitnessReverseImport ==
    \E p \in Procs :
        /\ IsImport(inv[p]) /\ Ended(inv[p], "complete") /\ inv[p].calls # <<>>
        /\ current = inv[p].scene /\ viewed = NoScene

---------------------------------------------------------------------------
\* An operation of the export side.
IsExportSide(s) == IsWallExport(s) \/ IsCopyUrl(s) \/ IsTileExport(s)

\* No invocation of the export side has issued a createEmbeddedDocuments call.
C27_NoCreateCall == \A p \in Procs : IsExportSide(inv[p]) => inv[p].calls = <<>>

\* A step of an invocation of the export side (its start, or one of its
\* continuations) leaves every scene's wall and tile collection as it was.
C27_Frame ==
    \A p \in Procs :
        inv'[p] # inv[p] /\ IsExportSide(inv'[p]) =>
            \A id \in SceneIds :
                /\ scenes'[id].walls = scenes[id].walls
                /\ scenes'[id].tiles = scenes[id].tiles

(* C27: the export side is read-only on the host.  exportWallsToClipboard,
   exportWallsToFile, copySceneImageUrl and exportSceneTilesAsImage issue no
   createEmbeddedDocuments call, whether they succeed, are declined at the
   padding dialog or fail, and no step of theirs changes the wall or tile
   collection of a scene. *)
C27_ExportReadOnly == []C27_NoCreateCall /\ [][C27_Frame]_vars

\* A wall export to a file of a scene with padding has ended complete.
C27_Witness ==
    \E p \in Procs :
        /\ inv[p].op = "exportFile" /\ Ended(inv[p], "complete")
        /\ inv[p].confirms # <<>> /\ Len(inv[p].saved) = 1

\* A wall export was declined; a tile export has saved its image; a copy of
\* the image URL has failed at the clipboard.
C27_WitnessDeclined ==
    \E p \in Procs : inv[p].op = "exportClipboard" /\ WasDeclined(inv[p])
C27_WitnessTiles ==
    \E p \in Procs : IsTileExport(inv[p]) /\ Ended(inv[p], "complete")
C27_WitnessUrlFailed ==
    \E p \in Procs :
        /\ IsCopyUrl(inv[p]) /\ Ended(inv[p], "failed") /\ inv[p].clip # <<>>

---------------------------------------------------------------------------
\* Every bulk-create call of an import is made on the scene the import holds.
C28_CallsOnOneScene ==
    \A p \in Procs :
        IsImport(inv[p]) =>
            \A j \in 1..Len(inv[p].calls) : inv[p].calls[j].scene = inv[p].scene

\* The import takes as its scene the scene that is current when it is given
\* its text, and keeps it to its end; a bulk-create call of its that
\* succeeds appends its batch to the walls of that scene and leaves the walls
\* of every other scene as they were.
C28_Step ==
    \A p \in Procs :
        LET s == inv[p]
            t == inv'[p]
        IN  /\ Reads(s, t) /\ t.scene # NoScene => t.scene = current
            /\ IsImport(s) /\ s.scene # NoScene /\ s.pc \notin Settled =>
                  /\ t.scene = s.scene
                  /\ IsImport(t)
            /\ IsImport(s) /\ s.pc = "create" /\ t # s
                  /\ t.calls[Len(s.calls)].result = "resolved" =>
                  /\ Len(scenes'[s.scene].walls) =
                        Len(scenes[s.scene].walls) + Len(s.calls[Len(s.calls)].batch)
                  /\ \A id \in SceneIds \ {s.scene} :
                        scenes'[id].walls = scenes[id].walls

(* C28: one scene for all batches.  All batches of one import are created in
   one and the same scene, the scene that was current when processWallImport
   read it, before the padding confirmation; it stays the import's scene
   when the host's current scene changes while the import is suspended at
   the confirmation dialog or between two batches. *)
C28_OneSceneForAllBatches == []C28_CallsOnOneScene /\ [][C28_Step]_vars

\* An import into the scene with padding awaits its second bulk-create call
\* while the other scene is current: the first batch is in the import's scene
\* and the second is submitted to it.
C28_Witness ==
    \E p \in Procs :
        LET s == inv[p] IN
        /\ IsImport(s) /\ s.pc = "create" /\ Len(s.calls) = 2
        /\ s.scene = "s2" /\ current = "s1"
        /\ s.calls[2].scene = "s2"
        /\ Len(scenes["s2"].walls) = 101 /\ scenes["s1"].walls = <<>>

---------------------------------------------------------------------------
\* The names of the module's tools, and how many tools of a list have a name.
ModuleToolNames == {"wall-management", "copy-scene-image", "export-tiles"}
Named(tools, name) == Cardinality({k \in 1..Len(tools) : tools[k].name = name})

(* C29: tool registration is idempotent.  After any number of invocations of
   the hook on a controls list that has a walls group with a tool list, that
   list has exactly one tool named "wall-management", one named
   "copy-scene-image" and one named "export-tiles"; the tools it had are
   still there, unchanged and in their places, followed by the module's tools
   that were missing; the other groups are unchanged; and one more
   invocation changes nothing.  When there is no walls group, or it has no
   tool list, the hook leaves the controls list as it was. *)
C29_Idempotent ==
    LET c == hook.controls
        g == hook.given
        i == FindWalls(g)
    IN  /\ hook.runs = 0 => c = g
        /\ hook.runs >= 1 =>
              IF i # 0 /\ g[i].hasTools
              THEN /\ \A name \in ModuleToolNames : Named(c[i].tools, name) = 1
                   /\ SubSeq(c[i].tools, 1, Len(g[i].tools)) = g[i].tools
                   /\ Len(c[i].tools) = Len(g[i].tools)
                         + Cardinality({name \in ModuleToolNames : ~Some(g[i].tools, name)})
                   /\ \A k \in (Len(g[i].tools) + 1)..Len(c[i].tools) :
                         c[i].tools[k] \in
                            {WallManagementTool, CopySceneImageTool, ExportTilesTool}
                   /\ Len(c) = Len(g)
                   /\ \A j \in 1..Len(g) : j # i => c[j] = g[j]
                   /\ c[i].name = "walls" /\ c[i].hasTools
                   /\ getSceneControlButtons(c) = c
              ELSE c = g

\* The hook has run twice on a list whose walls group had two tools of the
\* host and none of the module: it has five tools.
C29_Witness ==
    /\ hook.runs >= 2
    /\ FindWalls(hook.given) # 0
    /\ hook.given[FindWalls(hook.given)].tools = <<SelectTool, DoorsTool>>
    /\ Len(hook.controls[FindWalls(hook.given)].tools) = 5

\* The hook has run on a list without a walls group, and on one whose walls
\* group has no tool list.
C29_WitnessNoGroup ==
    /\ hook.runs >= 1 /\ hook.given # <<>> /\ FindWalls(hook.given) = 0
C29_WitnessNoTools ==
    /\ hook.runs >= 1 /\ FindWalls(hook.given) # 0
    /\ ~hook.given[FindWalls(hook.given)].hasTools


====
